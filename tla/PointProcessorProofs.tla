------------------------ MODULE PointProcessorProofs ------------------------
(***************************************************************************)
(* Proofs about the point processor.                                       *)
(*                                                                         *)
(* The inductive invariant, IInv, says of an undisturbed processor that    *)
(*                                                                         *)
(*   OneAtATime    one run goes on at a time, on the newest season, from   *)
(*                 the rows as they are (so its saves lose nothing);       *)
(*   FetchedLater  what it has fetched ends after the time stored, Passed, *)
(*                 and within the season;                                  *)
(*   Counted       a bet not yet passed is in the rows no more often than  *)
(*                 the seasons before cover it and the time was not        *)
(*                 stored, but for the bets of a run between its two saves *)
(*                 (Adding);                                               *)
(*   NothingLeft   what a run has reached, it has fetched, and what it has *)
(*                 passed, it has added;                                   *)
(*   Awarded       a run that gives away points has those of the rows;     *)
(*   HistoryAgrees the counters of the rows are those of their bets        *)
(*                 (StreaksProofs), the playing streak while these are in  *)
(*                 order,                                                  *)
(*                                                                         *)
(* and of any processor that what the runs fetch is closed and in order    *)
(* (InOrder).  RunUndisturbed and OthersUndisturbed say once what a step   *)
(* does to the season, the rows and the points; the parts of the invariant *)
(* are proved from these cases.                                            *)
(***************************************************************************)
EXTENDS PointProcessor, StreaksProofs, FunctionTheorems, SequenceTheorems

\* What a run has fetched is closed and in order, and the counters count.
BatchInOrder(x) ==
    /\ \A i \in DOMAIN x.batch : x.batch[i] \in closed /\ endAt[x.batch[i]] <= x.latest
    /\ \A i, j \in DOMAIN x.batch :
          i < j => x.batch[i] # x.batch[j] /\ endAt[x.batch[i]] <= endAt[x.batch[j]]
    /\ Counting(x.old.play)
InOrder ==
    /\ IsFiniteSet(closed)
    /\ \A b \in closed : endAt[b] <= now
    /\ Counting(row.play)
    /\ \A r \in Runs : BatchInOrder(run[r]) /\ (run[r].pc # "idle" => run[r].at \in DOMAIN season)

-----------------------------------------------------------------------------
(* Constants, counts and tiers. *)

LEMMA Constants ==
  /\ PageSize \in Nat \ {0} /\ Period \in Nat \ {0}
  /\ MaxTime \in Nat \ {0} /\ MaxSeasons \in Nat \ {0}
  /\ MaxErrors \in Nat /\ MaxTorn \in Nat
  /\ \A b \in Bets : Timeframe[b] \in {0, 1, 3}
  /\ EndTimes \subseteq [Bets -> 1..MaxTime]
  /\ \A times \in SeasonTimes : times[1] \in Times /\ times[2] \in Nat
BY PointAssumption DEF Times

LEMMA Ends ==
  ASSUME TypeOK, NEW b \in Bets
  PROVE  endAt[b] \in 1..MaxTime /\ endAt[b] \in Nat /\ endAt[b] \in Times /\ won[b] \in BOOLEAN
BY Constants DEF TypeOK, Times

LEMMA Divided ==
  ASSUME NEW m \in Nat, NEW n \in Nat, m <= n, NEW p \in Nat \ {0}
  PROVE  m \div p \in Nat /\ m \div p <= n \div p
<1>1. m \div p \in Nat /\ n \div p \in Nat
  OBVIOUS
<1>2. /\ p * (m \div p) <= m /\ m < p * (m \div p) + p
      /\ p * (n \div p) <= n /\ n < p * (n \div p) + p
  OBVIOUS
<1>3. ASSUME NEW a \in Nat, NEW b \in Nat, p * a <= m, n < p * b + p, b < a PROVE FALSE
  <2>1. PICK k \in Nat : a = b + 1 + k
    <3>1. a - b - 1 \in Nat /\ a = b + 1 + (a - b - 1)
      BY <1>3
    <3> QED BY <3>1
  <2>2. p * a = p * b + p + p * k
    BY <2>1
  <2>3. p * k \in Nat
    BY <2>1
  <2>4. p * b \in Nat /\ p * a \in Nat
    BY <1>3
  <2> QED BY <1>3, <2>2, <2>3, <2>4
<1> QED BY <1>1, <1>2, <1>3

\* The bets of a list that count.
LEMMA CountTyped ==
  ASSUME NEW S, NEW s \in Seq(S), NEW counted
  PROVE  /\ CountIn(s, counted) \in Nat
         /\ IsFiniteSet({i \in DOMAIN s : s[i] \in counted})
         /\ CountIn(s, counted) = 0 <=> \A i \in DOMAIN s : s[i] \notin counted
         /\ s = <<>> => CountIn(s, counted) = 0
<1> DEFINE at == {i \in DOMAIN s : s[i] \in counted}
<1>1. IsFiniteSet(1..Len(s)) /\ DOMAIN s = 1..Len(s)
  BY FS_Interval
<1>2. IsFiniteSet(at)
  <2>1. at \in SUBSET (1..Len(s))
    BY <1>1
  <2> HIDE DEF at
  <2> QED BY <1>1, <2>1, FS_Subset
<1>3. Cardinality(at) \in Nat /\ (Cardinality(at) = 0 <=> at = {})
  BY <1>2, FS_CardinalityType, FS_EmptySet
<1>4. at = {} <=> \A i \in DOMAIN s : s[i] \notin counted
  OBVIOUS
<1>5. s = <<>> => at = {}
  BY <1>1
<1>6. CountIn(s, counted) = Cardinality(at)
  BY DEF CountIn
<1> QED BY <1>2, <1>3, <1>4, <1>5, <1>6

\* A list after another adds its bets that count.
LEMMA CountAdd ==
  ASSUME NEW S, NEW s \in Seq(S), NEW t \in Seq(S), NEW counted
  PROVE  CountIn(s \o t, counted) = CountIn(s, counted) + CountIn(t, counted)
<1> DEFINE one == {i \in DOMAIN s : s[i] \in counted}
           two == {i \in DOMAIN t : t[i] \in counted}
           moved == {i \in (Len(s) + 1)..(Len(s) + Len(t)) : t[i - Len(s)] \in counted}
           shift == [i \in two |-> i + Len(s)]
<1>1. DOMAIN s = 1..Len(s) /\ DOMAIN t = 1..Len(t) /\ Len(s) \in Nat /\ Len(t) \in Nat
  OBVIOUS
<1>2. DOMAIN (s \o t) = 1..(Len(s) + Len(t))
  OBVIOUS
<1>3. {i \in DOMAIN (s \o t) : (s \o t)[i] \in counted} = one \cup moved
  <2>1. ASSUME NEW i \in 1..(Len(s) + Len(t))
        PROVE  (s \o t)[i] = IF i <= Len(s) THEN s[i] ELSE t[i - Len(s)]
    OBVIOUS
  <2> QED BY <1>1, <1>2, <2>1
<1>4. one \cap moved = {}
  BY <1>1
<1>5. shift \in Bijection(two, moved)
  <2>1. shift \in [two -> moved]
    BY <1>1
  <2>2. \A i, j \in two : shift[i] = shift[j] => i = j
    BY <1>1
  <2>3. ASSUME NEW j \in moved PROVE \E i \in two : shift[i] = j
    <3>1. j - Len(s) \in two
      BY <1>1
    <3>2. shift[j - Len(s)] = j
      BY <1>1, <3>1
    <3> QED BY <3>1, <3>2
  <2> QED BY <2>1, <2>2, <2>3 DEF Bijection, Injection, Surjection, IsInjective
<1>6. IsFiniteSet(one) /\ IsFiniteSet(two)
  BY CountTyped
<1>7. IsFiniteSet(moved) /\ Cardinality(moved) = Cardinality(two)
  <2> HIDE DEF two, moved, shift
  <2> QED BY <1>5, <1>6, FS_Bijection DEF ExistsBijection
<1>8. Cardinality(one \cup moved) = Cardinality(one) + Cardinality(moved)
  <2>1. Cardinality(one \cap moved) = 0
    BY <1>4, FS_EmptySet
  <2>2. Cardinality(one) \in Nat /\ Cardinality(moved) \in Nat
    BY <1>6, <1>7, FS_CardinalityType
  <2> HIDE DEF one, moved
  <2>3. Cardinality(one \cup moved) =
          Cardinality(one) + Cardinality(moved) - Cardinality(one \cap moved)
    BY <1>6, <1>7, FS_Union
  <2> QED BY <2>1, <2>2, <2>3
<1> QED BY <1>3, <1>7, <1>8 DEF CountIn

\* The tiers of the tasks are counted, and the points with them.
LEMMA Tiers ==
  ASSUME NEW progress
  PROVE  /\ DOMAIN TaskTiers(progress) = 1..13
         /\ CompletedTasks(progress) \in 0..13
         /\ CalcPoints(progress) \in Nat
<1>1. DOMAIN TaskTiers(progress) = 1..13
  BY DEF TaskTiers
<1> DEFINE tiers == TaskTiers(progress)
           full == {i \in DOMAIN tiers : tiers[i] = 3}
           pairs == (1..13) \X (1..3)
           reached == {p \in (DOMAIN tiers) \X (1..3) : p[2] <= tiers[p[1]]}
<1>2. IsFiniteSet(1..13) /\ Cardinality(1..13) = 13 /\ IsFiniteSet(1..3)
  <2> HIDE DEF tiers, full, pairs, reached
  <2>1. \A n \in Nat : IsFiniteSet(1..n) /\ (n # 0 => Cardinality(1..n) = n)
    BY FS_Interval
  <2>2. 13 \in Nat /\ 3 \in Nat /\ 13 # 0
    OBVIOUS
  <2> QED BY <2>1, <2>2, Zenon
<1>3. full \in SUBSET (1..13) /\ reached \in SUBSET pairs
  BY <1>1
<1>4. IsFiniteSet(pairs)
  BY <1>2, FS_Product
<1>5. CompletedTasks(progress) = Cardinality(full) /\ CalcPoints(progress) = Cardinality(reached)
  BY DEF CompletedTasks, CalcPoints
<1> HIDE DEF full, reached, pairs
<1>6. Cardinality(full) \in Nat /\ Cardinality(full) <= 13
  <2>1. IsFiniteSet(full) /\ Cardinality(full) <= Cardinality(1..13)
    BY <1>2, <1>3, FS_Subset
  <2>2. Cardinality(full) \in Nat
    BY <2>1, FS_CardinalityType
  <2> QED BY <1>2, <2>1, <2>2
<1>7. Cardinality(reached) \in Nat
  BY <1>3, <1>4, FS_Subset, FS_CardinalityType
<1> QED BY <1>1, <1>5, <1>6, <1>7

-----------------------------------------------------------------------------
(* Pages and rows. *)

\* The end times of a list of bets that is in order of them.
Sorted(bets) == \A i, j \in DOMAIN bets : i <= j => endAt[bets[i]] <= endAt[bets[j]]

LEMMA PeriodsInOrder ==
  ASSUME TypeOK, NEW bets \in Seq(Bets)
  PROVE  /\ Len(PeriodsOf(bets)) = Len(bets) /\ DOMAIN PeriodsOf(bets) = DOMAIN bets
         /\ PeriodsOf(bets) \in Seq(Nat)
         /\ \A i \in DOMAIN bets : PeriodsOf(bets)[i] = endAt[bets[i]] \div Period
         /\ Sorted(bets) => Ascending(PeriodsOf(bets))
         /\ bets # <<>> => PeriodsOf(bets) # <<>>
<1>1. \A i \in DOMAIN bets : bets[i] \in Bets /\ endAt[bets[i]] \in Nat
  BY Ends
<1>2. \A i \in DOMAIN bets : endAt[bets[i]] \div Period \in Nat
  BY <1>1, Constants, Divided
<1>3. /\ Len(PeriodsOf(bets)) = Len(bets) /\ DOMAIN PeriodsOf(bets) = DOMAIN bets
      /\ PeriodsOf(bets) \in Seq(Nat)
      /\ \A i \in DOMAIN bets : PeriodsOf(bets)[i] = endAt[bets[i]] \div Period
  BY <1>2 DEF PeriodsOf
<1>4. ASSUME Sorted(bets) PROVE Ascending(PeriodsOf(bets))
  <2>1. ASSUME NEW i \in DOMAIN bets, NEW j \in DOMAIN bets, i <= j
        PROVE  PeriodsOf(bets)[i] <= PeriodsOf(bets)[j]
    <3>1. endAt[bets[i]] <= endAt[bets[j]]
      BY <1>4, <2>1 DEF Sorted
    <3>2. endAt[bets[i]] \div Period <= endAt[bets[j]] \div Period
      BY <1>1, <3>1, Constants, Divided
    <3> QED BY <1>3, <3>2
  <2> QED BY <1>3, <2>1 DEF Ascending
<1> QED BY <1>3, <1>4

LEMMA WonTyped ==
  ASSUME TypeOK, NEW bets \in Seq(Bets)
  PROVE  /\ WonOf(bets) \in Seq(BOOLEAN)
         /\ Len(WonOf(bets)) = Len(bets) /\ DOMAIN WonOf(bets) = DOMAIN bets
         /\ bets # <<>> => WonOf(bets) # <<>>
<1>1. \A i \in DOMAIN bets : won[bets[i]] \in BOOLEAN
  BY Ends
<1>2. WonOf(bets) \in Seq(BOOLEAN) /\ Len(WonOf(bets)) = Len(bets)
      /\ DOMAIN WonOf(bets) = DOMAIN bets
  BY <1>1 DEF WonOf
<1> QED BY <1>2

\* What the handlers make of a row.
LEMMA Advanced ==
  ASSUME TypeOK, NEW old \in Progress, Counting(old.play), NEW completed \in 0..13,
         NEW batch \in Seq(Bets), batch # <<>>, Sorted(batch)
  PROVE  /\ Advance(old, completed, batch) \in Progress
         /\ Counting(Advance(old, completed, batch).play)
         /\ Advance(old, completed, batch).bets = old.bets \o batch
<1> DEFINE bets == old.bets \o batch
           play == PlayingStreak(old.play, PeriodsOf(batch))
           win == WinStreak(old.win, WonOf(batch))
           frames == TradeOnEachTimeframe(old.timeframes, batch)
<1>1. bets \in Seq(Bets)
  BY DEF Progress
<1>2. play \in PlayCounters /\ Counting(play)
  BY PeriodsInOrder, PlayTyped DEF Counting
<1>3. win \in WinCounters
  <2>1. old.win \in WinCounters
    BY DEF Progress, WinCounters
  <2> QED BY <2>1, WonTyped, WinTyped
<1>4. frames \in SUBSET {0, 1, 3}
  BY DEF TradeOnEachTimeframe, Progress
<1>5. Advance(old, completed, batch) =
        [bets |-> bets, play |-> play, win |-> win, timeframes |-> frames, completed |-> completed]
  BY DEF Advance
<1> HIDE DEF bets, play, win, frames
<1>6. Advance(old, completed, batch) \in Progress
  BY <1>1, <1>2, <1>3, <1>4, <1>5 DEF Progress, PlayCounters, WinCounters
<1> QED BY <1>2, <1>5, <1>6 DEF bets

\* The latest end of a page, as getBetsData keeps it.
LatestOf(latest, page) == Max({latest} \cup {endAt[page[i]] : i \in DOMAIN page})

LEMMA LatestIs ==
  ASSUME TypeOK, NEW latest \in Times, NEW page \in Seq(Bets)
  PROVE  /\ LatestOf(latest, page) \in Times
         /\ latest <= LatestOf(latest, page)
         /\ \A i \in DOMAIN page : endAt[page[i]] <= LatestOf(latest, page)
         /\ \/ LatestOf(latest, page) = latest
            \/ \E i \in DOMAIN page : LatestOf(latest, page) = endAt[page[i]]
<1> DEFINE ends == {latest} \cup {endAt[page[i]] : i \in DOMAIN page}
<1>1. MaxTime \in Nat /\ latest \in Nat /\ latest <= MaxTime
  BY Constants DEF Times
<1>2. \A i \in DOMAIN page : endAt[page[i]] \in Nat /\ endAt[page[i]] <= MaxTime
  BY Ends, <1>1
<1>3. ends \in SUBSET Nat /\ ends # {} /\ \A e \in ends : e <= MaxTime
  BY <1>1, <1>2
<1>4. Max(ends) \in ends /\ \A e \in ends : e <= Max(ends)
  <2> HIDE DEF ends
  <2> QED BY <1>1, <1>3, MaxIn
<1>5. Max(ends) \in Times
  BY <1>1, <1>3, <1>4 DEF Times
<1>6. /\ latest \in ends /\ \A i \in DOMAIN page : endAt[page[i]] \in ends
      /\ Max(ends) = latest \/ \E i \in DOMAIN page : Max(ends) = endAt[page[i]]
  BY <1>4
<1>7. LatestOf(latest, page) = Max(ends)
  BY DEF LatestOf
<1> HIDE DEF ends
<1> QED BY <1>4, <1>5, <1>6, <1>7

\* A page: bets of the query, one after the other, none passed over.
PageOf(page, selected) ==
    /\ page \in Seq(Bets) /\ \A i \in DOMAIN page : page[i] \in selected
    /\ \A i, j \in DOMAIN page :
          i < j => page[i] # page[j] /\ endAt[page[i]] <= endAt[page[j]]
    /\ \A b \in selected :
          (\E i \in DOMAIN page : page[i] = b) \/ \A i \in DOMAIN page : endAt[page[i]] <= endAt[b]

LEMMA PageHolds ==
  ASSUME NEW selected, IsFiniteSet(selected), selected \subseteq Bets, NEW page \in Pages(selected)
  PROVE  PageOf(page, selected)
<1> DEFINE size == IF Cardinality(selected) < PageSize THEN Cardinality(selected) ELSE PageSize
<1>1. size \in Nat
  BY FS_CardinalityType, Constants
<1>2. /\ page \in [1..size -> selected]
      /\ \A i, j \in 1..size : i < j => page[i] # page[j] /\ endAt[page[i]] <= endAt[page[j]]
      /\ \A i \in 1..size, b \in selected \ {page[j] : j \in 1..size} : endAt[page[i]] <= endAt[b]
  BY DEF Pages
<1> HIDE DEF size
<1>3. page \in Seq(Bets) /\ DOMAIN page = 1..size
  BY <1>1, <1>2
<1>4. \A b \in selected :
        (\E i \in DOMAIN page : page[i] = b) \/ \A i \in DOMAIN page : endAt[page[i]] <= endAt[b]
  BY <1>2, <1>3
<1> QED BY <1>2, <1>3, <1>4 DEF PageOf

\* What a page makes of a run.
LEMMA GotPage ==
  ASSUME TypeOK, InOrder, NEW r \in Runs, NEW pc \in Stages, GetPage(r, pc)
  PROVE  \E page, latest :
           /\ PageOf(page, Selected(r)) /\ page \in Seq(Bets)
           /\ latest = LatestOf(run[r].latest, page)
           /\ run[r].pc = "fetch"
           /\ run[r].batch \o page \in Seq(Bets) /\ latest \in Times
           /\ run'[r].batch = run[r].batch \o page /\ run'[r].latest = latest
           /\ run'[r].pc = pc /\ run'[r].at = run[r].at /\ run'[r].snap = run[r].snap
           /\ run'[r].old = run[r].old /\ \A q \in Runs : q # r => run'[q] = run[q]
           /\ run' \in [Runs -> RunStates]
<1>1. IsFiniteSet(Selected(r)) /\ Selected(r) \subseteq Bets
  <2>1. Selected(r) \in SUBSET closed
    BY DEF Selected
  <2> QED BY <2>1, FS_Subset DEF TypeOK, InOrder
<1>2. PICK page \in Pages(Selected(r)) :
        run' = [run EXCEPT
            ![r].batch = @ \o page,
            ![r].latest = Max({@} \cup {endAt[page[i]] : i \in DOMAIN page}),
            ![r].pc = pc]
  BY DEF GetPage
<1>3. PageOf(page, Selected(r)) /\ page \in Seq(Bets)
  BY <1>1, PageHolds DEF PageOf
<1> DEFINE latest == LatestOf(run[r].latest, page)
           batch == run[r].batch \o page
           x == [run[r] EXCEPT !.batch = batch, !.latest = latest, !.pc = pc]
<1>4. run[r] \in RunStates
  BY DEF TypeOK
<1>5. batch \in Seq(Bets) /\ latest \in Times
  BY <1>3, <1>4, LatestIs DEF RunStates
<1>6. run' = [run EXCEPT ![r] = x]
  BY <1>2, <1>4 DEF TypeOK, RunStates, LatestOf
<1> HIDE DEF latest, batch
<1>7. x \in RunStates
  BY <1>4, <1>5 DEF RunStates
<1>8. /\ x.batch = batch /\ x.latest = latest /\ x.pc = pc /\ x.at = run[r].at
      /\ x.snap = run[r].snap /\ x.old = run[r].old
  BY <1>4 DEF RunStates
<1> HIDE DEF x
<1>9. /\ run' \in [Runs -> RunStates] /\ run'[r] = x
      /\ \A q \in Runs : q # r => run'[q] = run[q]
  BY <1>6, <1>7 DEF TypeOK
<1>10. run[r].pc = "fetch"
  BY DEF GetPage
<1>11. latest = LatestOf(run[r].latest, page) /\ batch = run[r].batch \o page
  BY DEF latest, batch
<1> QED BY <1>3, <1>5, <1>8, <1>9, <1>10, <1>11

-----------------------------------------------------------------------------
(* The types are kept. *)

LEMMA RowsTyped ==
  /\ NoRow \in Progress /\ Counting(NoRow.play) /\ NoRow.bets = <<>>
  /\ NoSeason \in Seasons
  /\ Idle \in RunStates /\ BatchInOrder(Idle) /\ Idle.pc = "idle" /\ Idle.batch = <<>>
  /\ \A times \in SeasonTimes : NewSeason(times) \in Seasons
<1>1. MaxTime \in Nat /\ MaxErrors \in Nat
  BY Constants
<1>2. NoRow \in Progress /\ Counting(NoRow.play) /\ NoRow.bets = <<>>
  BY DEF NoRow, NeverPlayed, NeverWon, Progress, Counting, PlayCounters
<1>3. NoSeason \in Seasons
  BY <1>1 DEF NoSeason, Seasons, Times, NoTime
<1>4. Idle \in RunStates /\ Idle.pc = "idle" /\ Idle.batch = <<>> /\ Idle.old = NoRow
  BY <1>1, <1>2, <1>3 DEF Idle, RunStates, Stages, Times
<1>5. BatchInOrder(Idle)
  BY <1>2, <1>4 DEF BatchInOrder
<1>6. \A times \in SeasonTimes : NewSeason(times) \in Seasons
  BY Constants DEF NewSeason, Seasons
<1> QED BY <1>2, <1>3, <1>4, <1>5, <1>6

\* A run takes one step, the others none.
LEMMA OneRun ==
  ASSUME TypeOK, NEW r \in Runs, NEW x, run' = [run EXCEPT ![r] = x]
  PROVE  /\ x \in RunStates => run' \in [Runs -> RunStates]
         /\ run'[r] = x /\ \A q \in Runs : q # r => run'[q] = run[q]
BY DEF TypeOK

\* Where a run goes to from one await to the next, and what changes in it.
LEMMA Started ==
  ASSUME TypeOK, NEW r \in Runs, StartRun(r)
  PROVE  \E s \in DOMAIN season, from \in Times :
           /\ season[s].active /\ run[r].pc = "idle"
           /\ from = IF season[s].last = NoTime THEN season[s].start ELSE season[s].last
           /\ run' = [run EXCEPT ![r] = [Idle EXCEPT !.pc = "fetch", !.at = s,
                            !.snap = season[s], !.latest = from]]
           /\ run' \in [Runs -> RunStates] /\ \A q \in Runs : q # r => run'[q] = run[q]
           /\ run'[r].pc = "fetch" /\ run'[r].at = s /\ run'[r].snap = season[s]
           /\ run'[r].latest = from /\ run'[r].batch = <<>> /\ run'[r].old = NoRow
           /\ run'[r].award = 0
<1>1. PICK s \in DOMAIN season :
        /\ season[s].active /\ run[r].pc = "idle"
        /\ LET from == IF season[s].last = NoTime THEN season[s].start ELSE season[s].last
           IN  run' = [run EXCEPT ![r] = [Idle EXCEPT !.pc = "fetch", !.at = s,
                            !.snap = season[s], !.latest = from]]
  BY DEF StartRun
<1> DEFINE from == IF season[s].last = NoTime THEN season[s].start ELSE season[s].last
           snap == season[s]
           x == [Idle EXCEPT !.pc = "fetch", !.at = s, !.snap = snap, !.latest = from]
<1>2. snap \in Seasons /\ s \in Nat
  BY DEF TypeOK
<1>3. from \in Times
  BY <1>2 DEF Seasons, NoTime
<1>4. run' = [run EXCEPT ![r] = x]
  BY <1>1
<1> HIDE DEF from, snap
<1>5. Idle \in RunStates
  BY RowsTyped
<1>6. x \in RunStates
  BY <1>2, <1>3, <1>5 DEF RunStates, Stages
<1>7. x.pc = "fetch" /\ x.at = s /\ x.snap = snap /\ x.latest = from /\ x.batch = <<>>
        /\ x.old = NoRow /\ x.award = 0
  BY DEF Idle
<1> HIDE DEF x
<1>8. /\ run'[r] = x /\ \A q \in Runs : q # r => run'[q] = run[q]
      /\ run' \in [Runs -> RunStates]
  BY <1>4, <1>6, OneRun
<1>9. /\ season[s].active /\ run[r].pc = "idle"
      /\ from = IF season[s].last = NoTime THEN season[s].start ELSE season[s].last
      /\ run' = [run EXCEPT ![r] = [Idle EXCEPT !.pc = "fetch", !.at = s,
                       !.snap = season[s], !.latest = from]]
  BY <1>1, <1>4 DEF from, snap, x
<1> QED BY <1>3, <1>7, <1>8, <1>9 DEF snap

LEMMA Stepped ==
  ASSUME TypeOK, NEW r \in Runs, NEW pc \in Stages, run' = Step(r, pc)
  PROVE  /\ run'[r] \in RunStates /\ run'[r] = [run[r] EXCEPT !.pc = pc]
         /\ \A q \in Runs : q # r => run'[q] = run[q]
         /\ run' \in [Runs -> RunStates]
<1>1. run[r] \in RunStates
  BY DEF TypeOK
<1>2. run' = [run EXCEPT ![r] = [run[r] EXCEPT !.pc = pc]]
  BY DEF Step, TypeOK
<1>3. [run[r] EXCEPT !.pc = pc] \in RunStates
  BY <1>1 DEF RunStates
<1> QED BY <1>2, <1>3, OneRun

\* The season as the run has it, saved with some of its columns changed.
LEMMA Saved ==
  ASSUME TypeOK, NEW r \in Runs, run[r].at \in DOMAIN season, NEW snap \in Seasons,
         season' = [season EXCEPT ![run[r].at] = snap]
  PROVE  /\ season' \in Seq(Seasons) \ {<<>>} /\ Len(season') = Len(season)
         /\ DOMAIN season' = DOMAIN season
         /\ season'[run[r].at] = snap
         /\ \A s \in DOMAIN season : s # run[r].at => season'[s] = season[s]
BY DEF TypeOK

LEMMA SeasonSaved ==
  ASSUME TypeOK, InOrder, NEW r \in Runs, SaveSeason(r)
  PROVE  \E snap \in Seasons :
           /\ snap = [run[r].snap EXCEPT !.last = run[r].latest]
           /\ snap.start = run[r].snap.start /\ snap.end = run[r].snap.end
           /\ snap.active = run[r].snap.active /\ snap.last = run[r].latest
           /\ run[r].pc = "season" /\ run[r].at \in DOMAIN season
           /\ season' = [season EXCEPT ![run[r].at] = snap]
           /\ run' = [run EXCEPT ![r] = [Idle EXCEPT !.pc = "over", !.at = run[r].at,
                                                     !.snap = snap]]
           /\ run' \in [Runs -> RunStates] /\ \A q \in Runs : q # r => run'[q] = run[q]
           /\ run'[r].pc = "over" /\ run'[r].at = run[r].at /\ run'[r].snap = snap
           /\ run'[r].latest = 0 /\ run'[r].batch = <<>> /\ run'[r].old = NoRow
           /\ season' \in Seq(Seasons) \ {<<>>}
<1> DEFINE snap == [run[r].snap EXCEPT !.last = run[r].latest]
           at == run[r].at
           x == [Idle EXCEPT !.pc = "over", !.at = at, !.snap = snap]
<1>1. run[r] \in RunStates /\ run[r].snap \in Seasons /\ run[r].latest \in Times /\ at \in Nat
  BY DEF TypeOK, RunStates
<1>2. snap \in Seasons /\ snap.start = run[r].snap.start /\ snap.end = run[r].snap.end
        /\ snap.active = run[r].snap.active /\ snap.last = run[r].latest
  BY <1>1 DEF Seasons
<1>3. run[r].pc = "season" /\ season' = [season EXCEPT ![run[r].at] = snap]
        /\ run' = [run EXCEPT ![r] = x] /\ run[r].at \in DOMAIN season
  BY DEF SaveSeason, InOrder
<1> HIDE DEF snap, at
<1>4. Idle \in RunStates
  BY RowsTyped
<1>5. x \in RunStates
  BY <1>1, <1>2, <1>4 DEF RunStates, Stages
<1>6. x.pc = "over" /\ x.at = at /\ x.snap = snap /\ x.latest = 0 /\ x.batch = <<>> /\ x.old = NoRow
  BY DEF Idle
<1> HIDE DEF x
<1>7. /\ run'[r] = x /\ \A q \in Runs : q # r => run'[q] = run[q]
      /\ run' \in [Runs -> RunStates]
  BY <1>3, <1>5, OneRun
<1>8. season' \in Seq(Seasons) \ {<<>>}
  BY <1>2, <1>3, Saved
<1>9. /\ snap = [run[r].snap EXCEPT !.last = run[r].latest]
      /\ run' = [run EXCEPT ![r] = [Idle EXCEPT !.pc = "over", !.at = run[r].at, !.snap = snap]]
  BY <1>3 DEF snap, x, at
<1> QED BY <1>2, <1>3, <1>6, <1>7, <1>8, <1>9 DEF at

LEMMA RunTypeKept ==
  ASSUME TypeOK, InOrder, NEW r \in Runs, RunStep(r)
  PROVE  TypeOK'
<1> USE DEF TypeOK
<1>1. run[r] \in RunStates /\ run[r].old \in Progress /\ run[r].batch \in Seq(Bets)
        /\ run[r].completed \in 0..13
  BY DEF RunStates
<1>2. CASE StartRun(r)
  <2>1. run' \in [Runs -> RunStates]
    BY <1>2, Started, OneRun
  <2> QED BY <1>2, <2>1 DEF StartRun, world
<1>3. ASSUME NEW pc \in Stages, GetPage(r, pc) PROVE TypeOK'
  <2>1. run' \in [Runs -> RunStates]
    BY <1>3, GotPage
  <2> QED BY <1>3, <2>1 DEF GetPage, world, history
<1>4. CASE FetchPage(r) \/ FetchLastPage(r)
  BY <1>3, <1>4 DEF FetchPage, FetchLastPage, Stages
<1>5. CASE FetchFails(r)
  <2>1. run' \in [Runs -> RunStates]
    <3>1. CASE run[r].errors + 1 > MaxErrors
      BY <1>5, <3>1, Stepped DEF FetchFails, Stages
    <3>2. CASE ~(run[r].errors + 1 > MaxErrors)
      <4> DEFINE errors == run[r].errors + 1
      <4>1. errors \in 0..MaxErrors
        BY <1>1, <3>2, Constants DEF RunStates
      <4>2. run' = [run EXCEPT ![r] = [run[r] EXCEPT !.errors = errors]]
        BY <1>5, <3>2 DEF FetchFails
      <4> HIDE DEF errors
      <4>3. [run[r] EXCEPT !.errors = errors] \in RunStates
        BY <1>1, <4>1 DEF RunStates
      <4> QED BY <4>2, <4>3, OneRun
    <3> QED BY <3>1, <3>2
  <2> QED BY <1>5, <2>1 DEF FetchFails, world, history
<1>6. CASE ReadProgress(r)
  <2>1. run' \in [Runs -> RunStates]
    <3>1. CASE run[r].batch = <<>>
      <4>1. PICK pc \in {"completed", "season"} : run' = Step(r, pc)
        BY <1>6, <3>1 DEF ReadProgress
      <4>2. pc \in Stages
        BY DEF Stages
      <4> QED BY <4>1, <4>2, Stepped
    <3>2. CASE run[r].batch # <<>>
      <4>1. run' = [run EXCEPT ![r] = [run[r] EXCEPT !.old = row, !.pc = "completed"]]
        BY <1>6, <3>2 DEF ReadProgress
      <4>2. [run[r] EXCEPT !.old = row, !.pc = "completed"] \in RunStates
        BY <1>1 DEF RunStates, Stages
      <4> QED BY <4>1, <4>2, OneRun
    <3> QED BY <3>1, <3>2
  <2> QED BY <1>6, <2>1 DEF ReadProgress, world, history
<1>7. CASE CountCompleted(r)
  <2> DEFINE completed == CompletedTasks(row)
  <2>1. completed \in 0..13
    BY Tiers
  <2>2. run' = [run EXCEPT ![r] = [run[r] EXCEPT !.completed = completed, !.pc = "save"]]
    BY <1>7 DEF CountCompleted
  <2> HIDE DEF completed
  <2>3. [run[r] EXCEPT !.completed = completed, !.pc = "save"] \in RunStates
    BY <1>1, <2>1 DEF RunStates, Stages
  <2>4. run' \in [Runs -> RunStates]
    BY <2>2, <2>3, OneRun
  <2> QED BY <1>7, <2>4 DEF CountCompleted, world, history
<1>8. CASE SaveProgress(r)
  <2>1. run' \in [Runs -> RunStates]
    BY <1>8, Stepped DEF SaveProgress, Stages
  <2>2. /\ Counting(run[r].old.play)
        /\ \A i, j \in DOMAIN run[r].batch :
             i < j => endAt[run[r].batch[i]] <= endAt[run[r].batch[j]]
    BY <1>8 DEF SaveProgress, InOrder, BatchInOrder
  <2>3. Sorted(run[r].batch)
    <3>1. \A i, j \in DOMAIN run[r].batch : i \in Nat /\ j \in Nat /\ (i <= j => i < j \/ i = j)
      BY <1>1
    <3>2. \A i \in DOMAIN run[r].batch : endAt[run[r].batch[i]] \in Nat
      BY <1>1, Ends
    <3> QED BY <2>2, <3>1, <3>2 DEF Sorted
  <2>4. row' \in Progress
    <3>1. CASE run[r].batch # <<>>
      BY <1>1, <1>8, <2>2, <2>3, <3>1, Advanced DEF SaveProgress
    <3>2. CASE run[r].batch = <<>>
      BY <1>1, <1>8, <3>2 DEF SaveProgress, Progress
    <3> QED BY <3>1, <3>2
  <2> QED BY <1>8, <2>1, <2>4 DEF SaveProgress, world, history
<1>9. CASE SaveSeason(r)
  <2>1. run' \in [Runs -> RunStates] /\ season' \in Seq(Seasons) \ {<<>>}
    BY <1>9, SeasonSaved, OneRun
  <2> QED BY <1>9, <2>1 DEF SaveSeason, world, history
<1>10. CASE SeasonOver(r)
  <2>1. run' \in [Runs -> RunStates]
    <3>1. CASE run' = Step(r, "award")
      BY <3>1, Stepped DEF Stages
    <3>2. CASE run' = [run EXCEPT ![r] = Idle]
      BY <3>2, RowsTyped, OneRun
    <3> QED BY <1>10, <3>1, <3>2 DEF SeasonOver
  <2> QED BY <1>10, <2>1 DEF SeasonOver, world, history
<1>11. CASE ReadPoints(r)
  <2> DEFINE award == CalcPoints(row)
             pc == IF award > 0 THEN "points" ELSE "close"
  <2>1. award \in Nat /\ pc \in Stages
    BY Tiers DEF Stages
  <2>2. run' = [run EXCEPT ![r] = [run[r] EXCEPT !.award = award, !.pc = pc]]
    BY <1>11 DEF ReadPoints
  <2> HIDE DEF award, pc
  <2>3. [run[r] EXCEPT !.award = award, !.pc = pc] \in RunStates
    BY <1>1, <2>1 DEF RunStates
  <2>4. run' \in [Runs -> RunStates]
    BY <2>2, <2>3, OneRun
  <2> QED BY <1>11, <2>4 DEF ReadPoints, world, history
<1>12. CASE SavePoints(r)
  <2>1. run' \in [Runs -> RunStates] /\ run[r].award \in Nat
    BY <1>1, <1>12, Stepped DEF SavePoints, Stages, RunStates
  <2> QED BY <1>12, <2>1 DEF SavePoints, world, history
<1>13. CASE CloseSeason(r)
  <2> DEFINE snap == [run[r].snap EXCEPT !.active = FALSE]
  <2>1. run[r].snap \in Seasons
    BY <1>1 DEF RunStates
  <2>2. snap \in Seasons
    BY <2>1 DEF Seasons
  <2>3. run[r].at \in DOMAIN season /\ season' = [season EXCEPT ![run[r].at] = snap]
    BY <1>13 DEF CloseSeason, InOrder
  <2> HIDE DEF snap
  <2>4. season' \in Seq(Seasons) \ {<<>>}
    BY <2>2, <2>3, Saved
  <2>5. run' \in [Runs -> RunStates]
    BY <1>13, RowsTyped, OneRun DEF CloseSeason
  <2> QED BY <1>13, <2>4, <2>5 DEF CloseSeason, world, history
<1>14. CASE RunEnds(r)
  <2>1. run' \in [Runs -> RunStates]
    BY <1>14, RowsTyped, OneRun DEF RunEnds
  <2>2. torn' \in 0..MaxTorn
    BY <1>14, Constants DEF RunEnds
  <2> QED BY <1>14, <2>1, <2>2 DEF RunEnds, world
<1> QED BY <1>2, <1>4, <1>5, <1>6, <1>7, <1>8, <1>9, <1>10, <1>11, <1>12, <1>13, <1>14 DEF RunStep

LEMMA TypeKept ==
  ASSUME TypeOK, InOrder, [Next]_vars
  PROVE  TypeOK'
<1> USE DEF TypeOK
<1>1. ASSUME NEW r \in Runs, RunStep(r) PROVE TypeOK'
  BY <1>1, RunTypeKept
<1>2. ASSUME NEW reset \in BOOLEAN, CallSetNewSeason(reset) PROVE TypeOK'
  BY <1>2 DEF CallSetNewSeason, AdminStep, world
<1>3. CASE ResetPoints
  BY <1>3 DEF ResetPoints, AdminStep, world
<1>4. CASE ClearProgress
  BY <1>4, RowsTyped DEF ClearProgress, AdminStep, world
<1>5. CASE DeactivateAll
  <2>1. \A s \in DOMAIN season : [season[s] EXCEPT !.active = FALSE] \in Seasons
    <3> SUFFICES ASSUME NEW s \in DOMAIN season
                 PROVE  [season[s] EXCEPT !.active = FALSE] \in Seasons
      OBVIOUS
    <3>1. season[s] \in Seasons
      OBVIOUS
    <3> QED BY <3>1 DEF Seasons
  <2>2. season' \in Seq(Seasons) \ {<<>>}
    <3>1. season' = [s \in DOMAIN season |-> [season[s] EXCEPT !.active = FALSE]]
      BY <1>5 DEF DeactivateAll
    <3>2. Len(season) \in Nat \ {0} /\ DOMAIN season = 1..Len(season)
      OBVIOUS
    <3>3. season' \in [1..Len(season) -> Seasons]
      BY <2>1, <3>1, <3>2
    <3> QED BY <3>2, <3>3
  <2> QED BY <1>5, <2>2 DEF DeactivateAll, AdminStep, world
<1>6. CASE InsertSeason
  <2>1. season' \in Seq(Seasons) \ {<<>>}
    BY <1>6, RowsTyped DEF InsertSeason
  <2>2. late' \subseteq closed'
    BY <1>6 DEF InsertSeason
  <2> QED BY <1>6, <2>1, <2>2 DEF InsertSeason, AdminStep, world
<1>7. CASE SetNewSeasonFails
  BY <1>7 DEF SetNewSeasonFails, world
<1>8. ASSUME NEW b \in Bets, CloseRound(b) PROVE TypeOK'
  BY <1>8 DEF CloseRound, world
<1>9. CASE Tick
  BY <1>9, Constants DEF Tick, Times, world, history
<1>10. CASE UNCHANGED vars
  BY <1>10 DEF vars, world, history
<1> QED BY <1>1, <1>2, <1>3, <1>4, <1>5, <1>6, <1>7, <1>8, <1>9, <1>10 DEF Next

-----------------------------------------------------------------------------
(* What the runs fetch stays in order. *)

\* The step of a run, but for those that begin it, fetch or store the time:
\* the bets fetched stay as they are, or are forgotten.
LEMMA Course ==
  ASSUME TypeOK, NEW r \in Runs, RunStep(r)
  PROVE  /\ \A q \in Runs : q # r => run'[q] = run[q]
         /\ UNCHANGED <<now, endAt, won, closed, admin, late>>
         /\ \/ StartRun(r)
            \/ \E pc \in {"fetch", "read"} : GetPage(r, pc)
            \/ SaveSeason(r)
            \/ /\ run'[r] = Idle /\ (CloseSeason(r) \/ SeasonOver(r) \/ RunEnds(r))
               /\ run[r].pc # "idle"
            \/ /\ run'[r].batch = run[r].batch /\ run'[r].latest = run[r].latest
               /\ run'[r].at = run[r].at /\ run'[r].snap = run[r].snap
               /\ run[r].pc # "idle" /\ run'[r].pc # "idle"
               /\ \/ FetchFails(r) /\ run'[r].pc \in {"fetch", "read"}
                  \/ ReadProgress(r) /\ run'[r].pc = "season" /\ run[r].batch = <<>>
                  \/ ReadProgress(r) /\ run'[r].pc = "completed"
                  \/ CountCompleted(r) /\ run'[r].pc = "save"
                  \/ SaveProgress(r) /\ run'[r].pc = "season"
                  \/ SeasonOver(r) /\ run'[r].pc = "award"
                  \/ ReadPoints(r) /\ run'[r].pc \in {"points", "close"}
                  \/ SavePoints(r) /\ run'[r].pc = "close"
               /\ run'[r].old = IF run'[r].pc = "completed" /\ run[r].batch # <<>>
                               THEN row ELSE run[r].old
<1> USE DEF world, history
<1>1. run[r] \in RunStates /\ run \in [Runs -> RunStates]
  BY DEF TypeOK
<1>2. CASE StartRun(r)
  BY <1>2, Started DEF StartRun
<1>3. CASE FetchPage(r)
  <2>1. GetPage(r, "fetch")
    BY <1>3 DEF FetchPage
  <2> QED BY <1>1, <2>1 DEF GetPage
<1>4. CASE FetchLastPage(r)
  <2>1. GetPage(r, "read")
    BY <1>4 DEF FetchLastPage
  <2> QED BY <1>1, <2>1 DEF GetPage
<1>5. CASE FetchFails(r)
  BY <1>1, <1>5 DEF FetchFails, Step, RunStates
<1>6. CASE ReadProgress(r)
  BY <1>1, <1>6 DEF ReadProgress, Step, RunStates
<1>7. CASE CountCompleted(r)
  BY <1>1, <1>7 DEF CountCompleted, Step, RunStates
<1>8. CASE SaveProgress(r)
  BY <1>1, <1>8 DEF SaveProgress, Step, RunStates
<1>9. CASE SaveSeason(r)
  BY <1>1, <1>9 DEF SaveSeason
<1>10. CASE SeasonOver(r)
  BY <1>1, <1>10 DEF SeasonOver, Step, RunStates
<1>11. CASE ReadPoints(r)
  <2> DEFINE award == CalcPoints(row)
             pc == IF award > 0 THEN "points" ELSE "close"
  <2>1. run' = [run EXCEPT ![r] = [run[r] EXCEPT !.award = award, !.pc = pc]]
    BY <1>11 DEF ReadPoints
  <2>2. run[r].pc = "award" /\ pc \in {"points", "close"}
    BY <1>11 DEF ReadPoints
  <2> HIDE DEF award, pc
  <2>3. /\ run'[r].batch = run[r].batch /\ run'[r].latest = run[r].latest
        /\ run'[r].at = run[r].at /\ run'[r].snap = run[r].snap
        /\ run'[r].old = run[r].old /\ run'[r].pc = pc
        /\ \A q \in Runs : q # r => run'[q] = run[q]
    BY <1>1, <2>1 DEF RunStates
  <2>4. UNCHANGED <<now, endAt, won, closed, admin, late>>
    BY <1>11 DEF ReadPoints
  <2> QED BY <1>11, <2>2, <2>3, <2>4
<1>12. CASE SavePoints(r)
  BY <1>1, <1>12 DEF SavePoints, Step, RunStates
<1>13. CASE CloseSeason(r)
  BY <1>1, <1>13 DEF CloseSeason
<1>14. CASE RunEnds(r)
  BY <1>1, <1>14 DEF RunEnds
<1> QED BY <1>2, <1>3, <1>4, <1>5, <1>6, <1>7, <1>8, <1>9, <1>10, <1>11, <1>12, <1>13, <1>14
        DEF RunStep

\* The steps beside the runs.
Others ==
    \/ \E reset \in BOOLEAN : CallSetNewSeason(reset)
    \/ ResetPoints
    \/ ClearProgress
    \/ DeactivateAll
    \/ InsertSeason
    \/ SetNewSeasonFails
    \/ \E b \in Bets : CloseRound(b)
    \/ Tick

LEMMA OthersLeave ==
  ASSUME TypeOK, Others
  PROVE  /\ UNCHANGED <<run, endAt, won, torn>>
         /\ DOMAIN season \subseteq DOMAIN season'
         /\ closed' = closed \/ \E b \in Bets : CloseRound(b)
         /\ now' = now \/ Tick
         /\ row' = row \/ ClearProgress
         /\ season' = season \/ DeactivateAll \/ InsertSeason
         /\ points' = points \/ ResetPoints
<1> USE DEF world, history
<1>1. CASE \E reset \in BOOLEAN : CallSetNewSeason(reset)
  BY <1>1 DEF CallSetNewSeason, AdminStep
<1>2. CASE ResetPoints
  BY <1>2 DEF ResetPoints, AdminStep
<1>3. CASE ClearProgress
  BY <1>3 DEF ClearProgress, AdminStep
<1>4. CASE DeactivateAll
  BY <1>4 DEF DeactivateAll, AdminStep
<1>5. CASE InsertSeason
  <2>1. DOMAIN season \subseteq DOMAIN season'
    BY <1>5 DEF InsertSeason, TypeOK
  <2> QED BY <1>5, <2>1 DEF InsertSeason, AdminStep
<1>6. CASE SetNewSeasonFails
  BY <1>6 DEF SetNewSeasonFails
<1>7. CASE \E b \in Bets : CloseRound(b)
  BY <1>7 DEF CloseRound
<1>8. CASE Tick
  BY <1>8 DEF Tick
<1> QED BY <1>1, <1>2, <1>3, <1>4, <1>5, <1>6, <1>7, <1>8 DEF Others

\* The parts of two lists put together.
LEMMA Joined ==
  ASSUME NEW S, NEW s \in Seq(S), NEW t \in Seq(S), NEW i \in DOMAIN (s \o t)
  PROVE  /\ i \in Nat /\ Len(s) \in Nat
         /\ i <= Len(s) => i \in DOMAIN s /\ (s \o t)[i] = s[i]
         /\ i > Len(s) => i - Len(s) \in DOMAIN t /\ (s \o t)[i] = t[i - Len(s)]
OBVIOUS

\* The bets of a page end after those fetched before.
LEMMA PageInOrder ==
  ASSUME TypeOK, InOrder, NEW r \in Runs, NEW page, PageOf(page, Selected(r)),
         NEW latest, latest = LatestOf(run[r].latest, page), NEW batch,
         batch = run[r].batch \o page
  PROVE  /\ \A i \in DOMAIN batch : batch[i] \in closed /\ endAt[batch[i]] <= latest
         /\ \A i, j \in DOMAIN batch :
              i < j => batch[i] # batch[j] /\ endAt[batch[i]] <= endAt[batch[j]]
<1> DEFINE old == run[r].batch
           n == Len(old)
<1>1. old \in Seq(Bets) /\ run[r].latest \in Times /\ page \in Seq(Bets)
  BY DEF TypeOK, RunStates, PageOf
<1>2. /\ \A i \in DOMAIN old : old[i] \in closed /\ endAt[old[i]] <= run[r].latest
      /\ \A i, j \in DOMAIN old : i < j => old[i] # old[j] /\ endAt[old[i]] <= endAt[old[j]]
  BY DEF InOrder, BatchInOrder
<1>3. /\ \A i \in DOMAIN page : page[i] \in closed /\ run[r].latest < endAt[page[i]]
      /\ \A i, j \in DOMAIN page :
           i < j => page[i] # page[j] /\ endAt[page[i]] <= endAt[page[j]]
  BY DEF PageOf, Selected
<1>4. /\ latest \in Times /\ run[r].latest <= latest
      /\ \A i \in DOMAIN page : endAt[page[i]] <= latest
  BY <1>1, LatestIs
<1>5. \A b \in closed : b \in Bets /\ endAt[b] \in Nat
  BY Ends DEF TypeOK
<1>6. run[r].latest \in Nat /\ latest \in Nat
  BY <1>1, <1>4, Constants DEF Times
<1> HIDE DEF old
<1>7. \A i \in DOMAIN batch :
        /\ i \in Nat /\ n \in Nat
        /\ i <= n => i \in DOMAIN old /\ batch[i] = old[i]
        /\ i > n => i - n \in DOMAIN page /\ batch[i] = page[i - n]
  BY <1>1, Joined DEF old
<1> HIDE DEF n
<1>8. ASSUME NEW i \in DOMAIN batch
      PROVE  /\ batch[i] \in closed /\ endAt[batch[i]] <= latest
             /\ i <= n => endAt[batch[i]] <= run[r].latest
             /\ i > n => run[r].latest < endAt[batch[i]]
  <2> DEFINE b == batch[i]
             m == run[r].latest
  <2>1. CASE i <= n
    <3>1. b \in closed /\ endAt[b] <= m
      BY <1>2, <1>7, <2>1
    <3>2. endAt[b] \in Nat /\ m \in Nat /\ m <= latest
      BY <1>4, <1>5, <1>6, <3>1
    <3> HIDE DEF b, m
    <3>3. endAt[b] <= latest
      BY <1>6, <3>1, <3>2
    <3>4. ~(i > n)
      BY <1>7, <2>1
    <3> QED BY <3>1, <3>3, <3>4 DEF b, m
  <2>2. CASE i > n
    <3>1. b \in closed /\ m < endAt[b] /\ endAt[b] <= latest
      BY <1>3, <1>4, <1>7, <2>2
    <3>2. ~(i <= n)
      BY <1>7, <2>2
    <3> QED BY <3>1, <3>2
  <2> QED BY <1>7, <2>1, <2>2
<1>9. ASSUME NEW i \in DOMAIN batch, NEW j \in DOMAIN batch, i < j
      PROVE  batch[i] # batch[j] /\ endAt[batch[i]] <= endAt[batch[j]]
  <2>1. CASE j <= n
    <3>1. i <= n
      BY <1>7, <1>9, <2>1
    <3>2. /\ i \in DOMAIN old /\ j \in DOMAIN old
          /\ batch[i] = old[i] /\ batch[j] = old[j]
      BY <1>7, <2>1, <3>1
    <3> QED BY <1>2, <1>9, <3>2
  <2>2. CASE i > n
    <3> DEFINE k == i - n
               l == j - n
    <3>1. k \in DOMAIN page /\ l \in DOMAIN page /\ k < l
      BY <1>7, <1>9, <2>2
    <3>2. batch[i] = page[k] /\ batch[j] = page[l]
      BY <1>7, <1>9, <2>2
    <3> HIDE DEF k, l
    <3> QED BY <1>3, <3>1, <3>2
  <2>3. CASE i <= n /\ j > n
    <3>1. batch[i] \in closed /\ endAt[batch[i]] <= run[r].latest
      BY <1>8, <2>3
    <3>2. batch[j] \in closed /\ run[r].latest < endAt[batch[j]]
      BY <1>8, <2>3
    <3> DEFINE a == endAt[batch[i]]
               z == endAt[batch[j]]
               m == run[r].latest
    <3>3. a \in Nat /\ z \in Nat /\ m \in Nat /\ a <= m /\ m < z
      BY <1>5, <1>6, <3>1, <3>2
    <3> HIDE DEF a, z, m
    <3>4. a <= z /\ a # z
      BY <3>3
    <3> QED BY <3>4 DEF a, z
  <2> QED BY <1>7, <2>1, <2>2, <2>3
<1> QED BY <1>8, <1>9

LEMMA SortedBatch ==
  ASSUME TypeOK, NEW r \in Runs, BatchInOrder(run[r])
  PROVE  Sorted(run[r].batch)
<1>1. run[r].batch \in Seq(Bets)
  BY DEF TypeOK, RunStates
<1>2. \A i, j \in DOMAIN run[r].batch : i \in Nat /\ j \in Nat /\ (i <= j => i < j \/ i = j)
  BY <1>1
<1>3. \A i \in DOMAIN run[r].batch : endAt[run[r].batch[i]] \in Nat
  BY <1>1, Ends
<1> QED BY <1>2, <1>3 DEF Sorted, BatchInOrder

LEMMA InOrderKept ==
  ASSUME TypeOK, InOrder, [Next]_vars
  PROVE  InOrder'
<1>1. ASSUME NEW r \in Runs, RunStep(r) PROVE InOrder'
  <2>1. /\ \A q \in Runs : q # r => run'[q] = run[q]
        /\ UNCHANGED <<now, endAt, closed>>
    BY <1>1, Course
  <2>2. row' = row \/ SaveProgress(r)
    BY <1>1 DEF RunStep, StartRun, FetchPage, FetchLastPage, GetPage, FetchFails, ReadProgress,
                CountCompleted, SaveSeason, SeasonOver, ReadPoints, SavePoints, CloseSeason, RunEnds
  <2>3. DOMAIN season' = DOMAIN season
    <3>1. season' = season \/ SaveSeason(r) \/ CloseSeason(r)
      BY <1>1 DEF RunStep, StartRun, FetchPage, FetchLastPage, GetPage, FetchFails, ReadProgress,
                  CountCompleted, SaveProgress, SeasonOver, ReadPoints, SavePoints, RunEnds
    <3>2. SaveSeason(r) \/ CloseSeason(r) => DOMAIN season' = DOMAIN season
      BY DEF SaveSeason, CloseSeason
    <3> QED BY <3>1, <3>2
  <2>4. Counting(row'.play)
    <3>1. CASE SaveProgress(r)
      <4>1. run[r].old \in Progress /\ run[r].completed \in 0..13 /\ run[r].batch \in Seq(Bets)
        BY DEF TypeOK, RunStates
      <4>2. Counting(run[r].old.play) /\ Counting(row.play) /\ BatchInOrder(run[r])
        BY <3>1 DEF SaveProgress, InOrder, BatchInOrder
      <4>3. CASE run[r].batch # <<>>
        BY <3>1, <4>1, <4>2, <4>3, SortedBatch, Advanced DEF SaveProgress
      <4>4. CASE run[r].batch = <<>>
        BY <3>1, <4>2, <4>4 DEF SaveProgress, TypeOK, Progress
      <4> QED BY <4>3, <4>4
    <3> QED BY <2>2, <3>1 DEF InOrder
  <2>5. BatchInOrder(run[r])' /\ (run'[r].pc # "idle" => run'[r].at \in DOMAIN season')
    <3>1. CASE StartRun(r)
      <4>1. /\ run'[r].pc = "fetch" /\ run'[r].batch = <<>> /\ run'[r].old = NoRow
            /\ run'[r].at \in DOMAIN season
        BY <3>1, Started
      <4> QED BY <2>3, <4>1, RowsTyped DEF BatchInOrder
    <3>2. ASSUME NEW pc \in {"fetch", "read"}, GetPage(r, pc)
          PROVE  BatchInOrder(run[r])' /\ run'[r].at \in DOMAIN season'
      <4>1. PICK page, latest :
              /\ PageOf(page, Selected(r))
              /\ latest = LatestOf(run[r].latest, page)
              /\ run'[r].batch = run[r].batch \o page /\ run'[r].latest = latest
              /\ run'[r].pc = pc /\ run'[r].at = run[r].at /\ run'[r].old = run[r].old
        BY <3>2, GotPage DEF Stages
      <4> DEFINE batch == run[r].batch \o page
      <4>2. /\ \A i \in DOMAIN batch : batch[i] \in closed /\ endAt[batch[i]] <= latest
            /\ \A i, j \in DOMAIN batch :
                 i < j => batch[i] # batch[j] /\ endAt[batch[i]] <= endAt[batch[j]]
        BY <4>1, PageInOrder
      <4>3. /\ run'[r].batch = batch /\ run'[r].latest = latest /\ run'[r].pc = pc
            /\ run'[r].old = run[r].old /\ run'[r].at = run[r].at
        BY <4>1
      <4> HIDE DEF batch
      <4>4. Counting(run[r].old.play) /\ run[r].at \in DOMAIN season
        BY <3>2 DEF GetPage, InOrder, BatchInOrder
      <4> QED BY <2>1, <2>3, <3>2, <4>2, <4>3, <4>4 DEF BatchInOrder
    <3>3. CASE SaveSeason(r)
      <4>1. /\ run'[r].pc = "over" /\ run'[r].batch = <<>> /\ run'[r].old = NoRow
            /\ run'[r].at \in DOMAIN season
        BY <3>3, SeasonSaved
      <4> QED BY <2>3, <4>1, RowsTyped DEF BatchInOrder
    <3>4. CASE run'[r] = Idle
      BY <3>4, RowsTyped DEF BatchInOrder
    <3>5. CASE /\ run'[r].batch = run[r].batch /\ run'[r].latest = run[r].latest
               /\ run'[r].at = run[r].at /\ run[r].pc # "idle"
               /\ run'[r].old \in {row, run[r].old}
      <4>1. BatchInOrder(run[r]) /\ Counting(row.play) /\ run[r].at \in DOMAIN season
        BY <3>5 DEF InOrder
      <4>2. Counting(run'[r].old.play)
        BY <3>5, <4>1 DEF BatchInOrder
      <4> QED BY <2>1, <2>3, <3>5, <4>1, <4>2 DEF BatchInOrder
    <3> QED BY <1>1, <3>1, <3>2, <3>3, <3>4, <3>5, Course
  <2>6. \A q \in Runs : q # r =>
          BatchInOrder(run[q])' /\ (run'[q].pc # "idle" => run'[q].at \in DOMAIN season')
    BY <2>1, <2>3 DEF InOrder, BatchInOrder
  <2> QED BY <2>1, <2>4, <2>5, <2>6 DEF InOrder
<1>2. CASE Others
  <2>1. /\ UNCHANGED <<run, endAt>> /\ DOMAIN season \subseteq DOMAIN season'
        /\ closed' = closed \/ \E b \in Bets : CloseRound(b)
        /\ now' = now \/ Tick
        /\ row' = row \/ ClearProgress
    BY <1>2, OthersLeave
  <2>2. IsFiniteSet(closed') /\ closed \subseteq closed'
    BY <2>1, FS_AddElement DEF CloseRound, InOrder
  <2>3. Counting(row'.play)
    BY <2>1, RowsTyped DEF ClearProgress, InOrder
  <2>4. \A b \in closed' : endAt'[b] <= now'
    <3>1. CASE Tick
      <4>1. \A b \in closed : endAt[b] \in Nat /\ endAt[b] <= now /\ now \in Nat
        BY Ends, Constants DEF TypeOK, InOrder, Times
      <4>2. closed' = closed /\ now' = now + 1
        BY <3>1 DEF Tick
      <4> QED BY <2>1, <4>1, <4>2
    <3>2. CASE now' = now
      BY <2>1, <3>2 DEF CloseRound, InOrder
    <3> QED BY <2>1, <3>1, <3>2
  <2>5. \A q \in Runs :
          BatchInOrder(run[q])' /\ (run'[q].pc # "idle" => run'[q].at \in DOMAIN season')
    BY <2>1, <2>2 DEF InOrder, BatchInOrder
  <2> QED BY <2>2, <2>3, <2>4, <2>5 DEF InOrder
<1>3. CASE UNCHANGED vars
  BY <1>3 DEF vars, world, history, InOrder, BatchInOrder
<1> QED BY <1>1, <1>2, <1>3 DEF Next, Others

-----------------------------------------------------------------------------
(* Undisturbed, one run goes on at a time, on the newest season. *)

\* The time the processor has got to, as the next run will find it.
Passed == IF Newest.last = NoTime THEN Newest.start ELSE Newest.last

OneAtATime ==
    ~disturbed =>
        /\ \A q, r \in Running : q = r
        /\ Running # {} => admin = "idle" /\ Newest.active
        /\ \A s \in DOMAIN season : season[s].active => s = Len(season) /\ admin # "insert"
        /\ \A r \in Running :
             /\ run[r].at = Len(season) /\ run[r].snap = Newest
             /\ run[r].pc \in {"completed", "save"} /\ run[r].batch # <<>> => run[r].old = row
             /\ run[r].pc = "save" => run[r].completed = CompletedTasks(row)

LEMMA NewestTyped ==
  ASSUME TypeOK
  PROVE  /\ Len(season) \in Nat \ {0} /\ DOMAIN season = 1..Len(season)
         /\ Len(season) \in DOMAIN season
         /\ Newest = season[Len(season)] /\ Newest \in Seasons
         /\ Newest.start \in Times /\ Newest.last \in Times \cup {NoTime}
         /\ Passed \in Times
         /\ \A t \in Times : t \in Nat
<1>1. Len(season) \in Nat \ {0} /\ DOMAIN season = 1..Len(season) /\ Len(season) \in DOMAIN season
  BY DEF TypeOK
<1>2. Newest \in Seasons
  BY <1>1 DEF TypeOK, Newest
<1>3. Newest.start \in Times /\ Newest.last \in Times \cup {NoTime} /\ Passed \in Times
  BY <1>2 DEF Seasons, Passed
<1>4. \A t \in Times : t \in Nat
  BY Constants DEF Times
<1> QED BY <1>1, <1>2, <1>3, <1>4 DEF Newest

\* A step of a run leaves the processor undisturbed only if nobody else is at work.
LEMMA OnlyRun ==
  ASSUME TypeOK, OneAtATime, NEW r \in Runs, RunStep(r), ~disturbed'
  PROVE  /\ ~disturbed /\ admin = "idle" /\ admin' = "idle"
         /\ \A q \in Running : q = r
         /\ \A q \in Running' : q = r /\ run'[r].pc # "idle"
         /\ \A q \in Runs : q # r => run[q].pc = "idle" /\ run'[q].pc = "idle" /\ run'[q] = run[q]
         /\ run[r].pc # "idle" =>
              /\ r \in Running
              /\ run[r].at = Len(season) /\ run[r].snap = Newest /\ Newest.active
              /\ run[r].pc \in {"completed", "save"} /\ run[r].batch # <<>> => run[r].old = row
              /\ run[r].pc = "save" => run[r].completed = CompletedTasks(row)
<1>1. CASE StartRun(r)
  <2>1. ~disturbed /\ admin = "idle" /\ Running = {} /\ admin' = admin /\ run[r].pc = "idle"
    BY <1>1 DEF StartRun, TypeOK
  <2>2. \A q \in Runs : q # r => run'[q] = run[q]
    BY Course
  <2> QED BY <2>1, <2>2 DEF Running
<1>2. CASE ~StartRun(r)
  <2>1. run[r].pc # "idle"
    BY <1>2 DEF RunStep, FetchPage, FetchLastPage, GetPage, FetchFails, ReadProgress,
                CountCompleted, SaveProgress, SaveSeason, SeasonOver, ReadPoints, SavePoints,
                CloseSeason, RunEnds
  <2>2. disturbed' = disturbed
    BY <1>2 DEF RunStep, FetchPage, FetchLastPage, GetPage, FetchFails, ReadProgress,
                CountCompleted, SaveProgress, SaveSeason, SeasonOver, ReadPoints, SavePoints,
                CloseSeason, RunEnds, history
  <2>3. r \in Running
    BY <2>1 DEF Running
  <2>4. admin' = admin /\ \A q \in Runs : q # r => run'[q] = run[q]
    BY Course
  <2>5. admin = "idle" /\ \A q \in Running : q = r
    BY <2>2, <2>3 DEF OneAtATime
  <2> QED BY <2>1, <2>2, <2>3, <2>4, <2>5 DEF OneAtATime, Running
<1> QED BY <1>1, <1>2

\* setNewSeason goes on undisturbed only if no run does.
LEMMA OnlyAdmin ==
  ASSUME TypeOK, Others, ~disturbed'
  PROVE  /\ ~disturbed /\ Running' = Running
         /\ \/ /\ Running = {}
               /\ \/ \E reset \in BOOLEAN : CallSetNewSeason(reset)
                  \/ ResetPoints
                  \/ ClearProgress
                  \/ DeactivateAll
                  \/ InsertSeason
            \/ \E b \in Bets : CloseRound(b)
            \/ Tick
<1>1. Running' = Running
  BY OthersLeave DEF Running
<1>2. CASE \E reset \in BOOLEAN : CallSetNewSeason(reset)
  BY <1>1, <1>2 DEF CallSetNewSeason, AdminStep, TypeOK
<1>3. CASE ResetPoints
  BY <1>1, <1>3 DEF ResetPoints, AdminStep, TypeOK
<1>4. CASE ClearProgress
  BY <1>1, <1>4 DEF ClearProgress, AdminStep, TypeOK
<1>5. CASE DeactivateAll
  BY <1>1, <1>5 DEF DeactivateAll, AdminStep, TypeOK
<1>6. CASE InsertSeason
  BY <1>1, <1>6 DEF InsertSeason, AdminStep, TypeOK
<1>7. CASE SetNewSeasonFails
  BY <1>7 DEF SetNewSeasonFails
<1>8. CASE \E b \in Bets : CloseRound(b)
  <2>1. PICK b \in Bets : CloseRound(b)
    BY <1>8
  <2>2. disturbed' = disturbed
    BY <2>1 DEF CloseRound
  <2> QED BY <1>1, <1>8, <2>2
<1>9. CASE Tick
  BY <1>1, <1>9 DEF Tick, history
<1> QED BY <1>2, <1>3, <1>4, <1>5, <1>6, <1>7, <1>8, <1>9 DEF Others

LEMMA OneAtATimeKept ==
  ASSUME TypeOK, InOrder, OneAtATime, [Next]_vars, TypeOK'
  PROVE  OneAtATime'
<1> SUFFICES ASSUME ~disturbed' PROVE OneAtATime'
  BY DEF OneAtATime
<1>1. ASSUME NEW r \in Runs, RunStep(r) PROVE OneAtATime'
  <2>1. /\ ~disturbed /\ admin' = "idle"
        /\ \A q \in Running' : q = r /\ run'[r].pc # "idle"
        /\ run[r].pc # "idle" =>
             /\ run[r].at = Len(season) /\ run[r].snap = Newest /\ Newest.active
             /\ run[r].pc \in {"completed", "save"} /\ run[r].batch # <<>> => run[r].old = row
             /\ run[r].pc = "save" => run[r].completed = CompletedTasks(row)
    BY <1>1, OnlyRun
  <2>2. \A s \in DOMAIN season : season[s].active => s = Len(season)
    BY <2>1 DEF OneAtATime
  <2>3. Len(season) \in DOMAIN season /\ Newest = season[Len(season)]
    BY NewestTyped
  <2>4. CASE StartRun(r)
    <3>1. PICK s \in DOMAIN season :
            /\ season[s].active /\ run'[r].pc = "fetch" /\ run'[r].at = s
            /\ run'[r].snap = season[s]
      BY <2>4, Started
    <3>2. season' = season
      BY <2>4 DEF StartRun
    <3>3. s = Len(season) /\ Newest' = season[s]
      BY <2>2, <3>1, <3>2 DEF Newest
    <3> QED BY <2>1, <2>2, <3>1, <3>2, <3>3 DEF OneAtATime
  <2>5. ASSUME NEW pc \in {"fetch", "read"}, GetPage(r, pc) PROVE OneAtATime'
    <3>1. /\ run'[r].pc = pc /\ run'[r].at = run[r].at /\ run'[r].snap = run[r].snap
          /\ run[r].pc = "fetch"
      BY <2>5, GotPage DEF Stages
    <3>2. season' = season /\ Newest' = Newest
      BY <2>5 DEF GetPage, Newest
    <3> QED BY <2>1, <2>2, <2>5, <3>1, <3>2 DEF OneAtATime
  <2>6. CASE SaveSeason(r)
    <3>1. PICK snap \in Seasons :
            /\ snap.active = run[r].snap.active
            /\ run[r].pc = "season" /\ run[r].at \in DOMAIN season
            /\ season' = [season EXCEPT ![run[r].at] = snap]
            /\ run'[r].pc = "over" /\ run'[r].at = run[r].at /\ run'[r].snap = snap
      BY <2>6, SeasonSaved
    <3>2. /\ Len(season') = Len(season) /\ DOMAIN season' = DOMAIN season
          /\ season'[Len(season)] = snap
          /\ \A s \in DOMAIN season : s # Len(season) => season'[s] = season[s]
      BY <2>1, <3>1, Saved
    <3>3. Newest' = snap /\ snap.active
      BY <2>1, <3>1, <3>2 DEF Newest
    <3> QED BY <2>1, <2>2, <3>1, <3>2, <3>3 DEF OneAtATime
  <2>7. CASE CloseSeason(r)
    <3> DEFINE snap == [run[r].snap EXCEPT !.active = FALSE]
    <3>1. run[r].snap \in Seasons
      BY DEF TypeOK, RunStates
    <3>2. snap \in Seasons /\ ~snap.active
      BY <3>1 DEF Seasons
    <3>3. run[r].at \in DOMAIN season /\ season' = [season EXCEPT ![run[r].at] = snap]
      BY <2>7 DEF CloseSeason, InOrder
    <3>4. run[r].pc # "idle" /\ run'[r].pc = "idle"
      BY <2>7, RowsTyped DEF CloseSeason, TypeOK
    <3> HIDE DEF snap
    <3>5. /\ Len(season') = Len(season) /\ DOMAIN season' = DOMAIN season
          /\ season'[Len(season)] = snap
          /\ \A s \in DOMAIN season : s # Len(season) => season'[s] = season[s]
      BY <2>1, <3>2, <3>3, <3>4, Saved
    <3> QED BY <2>1, <2>2, <3>2, <3>4, <3>5 DEF OneAtATime
  <2>8. CASE run'[r] = Idle /\ (SeasonOver(r) \/ RunEnds(r))
    <3>1. season' = season /\ run'[r].pc = "idle"
      BY <2>8, RowsTyped DEF SeasonOver, RunEnds
    <3> QED BY <2>1, <2>2, <3>1 DEF OneAtATime
  <2>9. CASE /\ run'[r].at = run[r].at /\ run'[r].snap = run[r].snap
             /\ run'[r].batch = run[r].batch
             /\ run[r].pc # "idle" /\ run'[r].pc # "idle"
             /\ \/ FetchFails(r) /\ run'[r].pc \in {"fetch", "read"}
                \/ ReadProgress(r) /\ run'[r].pc = "season" /\ run[r].batch = <<>>
                \/ ReadProgress(r) /\ run'[r].pc = "completed"
                \/ CountCompleted(r) /\ run'[r].pc = "save"
                \/ SaveProgress(r) /\ run'[r].pc = "season"
                \/ SeasonOver(r) /\ run'[r].pc = "award"
                \/ ReadPoints(r) /\ run'[r].pc \in {"points", "close"}
                \/ SavePoints(r) /\ run'[r].pc = "close"
             /\ run'[r].old = IF run'[r].pc = "completed" /\ run[r].batch # <<>>
                             THEN row ELSE run[r].old
    <3>1. season' = season /\ Newest' = Newest
      BY <2>9 DEF FetchFails, ReadProgress, CountCompleted, SaveProgress, SeasonOver, ReadPoints,
                  SavePoints, Newest
    <3>2. row' = row \/ run'[r].pc = "season"
      BY <2>9 DEF FetchFails, ReadProgress, CountCompleted, SeasonOver, ReadPoints, SavePoints
    <3>3. run'[r].pc \in {"completed", "save"} /\ run'[r].batch # <<>> => run'[r].old = row'
      BY <2>1, <2>9, <3>2 DEF CountCompleted
    <3>4. run'[r].pc = "save" => run'[r].completed = CompletedTasks(row)
      <4>1. run'[r].pc = "save" => CountCompleted(r)
        BY <2>9
      <4> QED BY <4>1 DEF CountCompleted, TypeOK, RunStates
    <3>5. ASSUME run'[r].pc = "save" PROVE CompletedTasks(row)' = CompletedTasks(row)
      <4>1. UNCHANGED <<row, won>>
        BY <1>1, <2>9, <3>2, <3>5, Course
      <4> QED BY <4>1 DEF CompletedTasks, TaskTiers, VolumeOnPosition, VolumeForTimeframe,
            TotalTradesOnMarket, TotalVolume, WinLongAndShortTrade, CountIn, TiersReached,
            TimeframeTiers
    <3> QED BY <2>1, <2>2, <2>9, <3>1, <3>2, <3>3, <3>4, <3>5 DEF OneAtATime
  <2> QED BY <1>1, <2>4, <2>5, <2>6, <2>7, <2>8, <2>9, Course
<1>2. CASE Others
  <2>1. ~disturbed /\ Running' = Running /\ UNCHANGED run
    BY <1>2, OnlyAdmin, OthersLeave
  <2>2. /\ \A s \in DOMAIN season : season[s].active => s = Len(season) /\ admin # "insert"
        /\ DOMAIN season = 1..Len(season) /\ Len(season) \in Nat
    BY <2>1, NewestTyped DEF OneAtATime
  <2>3. CASE Running = {} /\ \E reset \in BOOLEAN : CallSetNewSeason(reset)
    BY <2>1, <2>2, <2>3 DEF OneAtATime, CallSetNewSeason, AdminStep
  <2>4. CASE Running = {} /\ ResetPoints
    BY <2>1, <2>2, <2>4 DEF OneAtATime, ResetPoints, AdminStep
  <2>5. CASE Running = {} /\ ClearProgress
    BY <2>1, <2>2, <2>5 DEF OneAtATime, ClearProgress, AdminStep
  <2>6. CASE Running = {} /\ DeactivateAll
    <3>1. season' = [s \in DOMAIN season |-> [season[s] EXCEPT !.active = FALSE]]
      BY <2>6 DEF DeactivateAll
    <3>2. \A s \in DOMAIN season : season[s] \in Seasons
      BY DEF TypeOK
    <3>3. \A s \in DOMAIN season' : ~season'[s].active
      BY <3>1, <3>2 DEF Seasons
    <3> QED BY <2>1, <2>6, <3>3 DEF OneAtATime
  <2>7. CASE Running = {} /\ InsertSeason
    <3>1. PICK times \in SeasonTimes : season' = Append(season, NewSeason(times))
      BY <2>7 DEF InsertSeason
    <3>5. admin = "insert" /\ admin' = "idle"
      BY <2>7 DEF InsertSeason, AdminStep
    <3>2. \A s \in DOMAIN season : ~season[s].active
      BY <2>2, <3>5
    <3>3. Len(season') = Len(season) + 1 /\ DOMAIN season' = 1..(Len(season) + 1)
          /\ \A s \in DOMAIN season : season'[s] = season[s]
      BY <2>2, <3>1 DEF TypeOK
    <3>4. \A s \in DOMAIN season' : season'[s].active => s = Len(season')
      BY <2>2, <3>2, <3>3
    <3> QED BY <2>1, <2>7, <3>5, <3>4 DEF OneAtATime
  <2>8. CASE UNCHANGED <<season, row, admin, endAt, won>>
    <3>1. CompletedTasks(row)' = CompletedTasks(row)
      BY <2>8 DEF CompletedTasks, TaskTiers, VolumeOnPosition, VolumeForTimeframe,
            TotalTradesOnMarket, TotalVolume, WinLongAndShortTrade, CountIn, TiersReached,
            TimeframeTiers
    <3> QED BY <2>1, <2>8, <3>1 DEF OneAtATime, Newest
  <2>9. (\E b \in Bets : CloseRound(b)) => UNCHANGED <<season, row, admin, endAt, won>>
    BY DEF CloseRound, world
  <2>10. Tick => UNCHANGED <<season, row, admin, endAt, won>>
    BY DEF Tick, world
  <2> QED BY <1>2, <2>3, <2>4, <2>5, <2>6, <2>7, <2>8, <2>9, <2>10, OnlyAdmin
<1>3. CASE UNCHANGED vars
  <2>1. CompletedTasks(row)' = CompletedTasks(row)
    BY <1>3 DEF CompletedTasks, TaskTiers, VolumeOnPosition, VolumeForTimeframe,
          TotalTradesOnMarket, TotalVolume, WinLongAndShortTrade, CountIn, TiersReached,
          TimeframeTiers, vars, world
  <2> QED BY <1>3, <2>1 DEF vars, world, history, OneAtATime, Running, Newest
<1> QED BY <1>1, <1>2, <1>3 DEF Next, Others

-----------------------------------------------------------------------------
(* What a step does to the season, the row and the points, undisturbed. *)

SameSeasons ==
    /\ Len(season') = Len(season)
    /\ \A s \in 1..Len(season) :
          season'[s].start = season[s].start /\ season'[s].end = season[s].end

Quiet(r) == \A q \in Runs : q # r => run[q].pc = "idle" /\ run'[q].pc = "idle"

Begins(r) ==
    /\ UNCHANGED <<season, row, points, torn>>
    /\ run[r].pc = "idle" /\ Newest.active
    /\ run'[r].pc = "fetch" /\ run'[r].latest = Passed /\ run'[r].batch = <<>>

Fetches(r) ==
    /\ UNCHANGED <<season, row, points, torn>>
    /\ run[r].pc = "fetch" /\ run'[r].pc \in {"fetch", "read"}
    /\ run[r].snap.end = Newest.end
    /\ \E page \in Seq(Bets), latest \in Times :
          /\ PageOf(page, Selected(r)) /\ latest = LatestOf(run[r].latest, page)
          /\ run'[r].batch = run[r].batch \o page /\ run'[r].latest = latest

GoesOn(r) ==
    /\ UNCHANGED <<season, row, points, torn>>
    /\ run'[r].batch = run[r].batch /\ run'[r].latest = run[r].latest
    /\ \/ run[r].pc = "fetch" /\ run'[r].pc \in {"fetch", "read"}
       \/ run[r].pc = "read" /\ run'[r].pc = "completed"
       \/ run[r].pc = "read" /\ run'[r].pc = "season" /\ run[r].batch = <<>>
       \/ run[r].pc = "completed" /\ run'[r].pc = "save"
       \/ run[r].pc = "over" /\ run'[r].pc = "award"
       \/ run[r].pc = "award" /\ run'[r].pc = "points" /\ run'[r].award = CalcPoints(row)
       \/ run[r].pc = "award" /\ run'[r].pc = "close" /\ ~(CalcPoints(row) > 0)

Adds(r) ==
    /\ UNCHANGED <<season, points, torn>>
    /\ run[r].pc = "save" /\ run'[r].pc = "season"
    /\ run'[r].batch = run[r].batch /\ run'[r].latest = run[r].latest
    /\ row'.bets = row.bets \o run[r].batch
    /\ row' = IF run[r].batch = <<>>
              THEN [row EXCEPT !.completed = CompletedTasks(row)]
              ELSE Advance(row, CompletedTasks(row), run[r].batch)

Stores(r) ==
    /\ UNCHANGED <<row, points, torn>>
    /\ run[r].pc = "season" /\ run'[r].pc = "over"
    /\ Newest'.start = Newest.start /\ Newest'.last = run[r].latest /\ Newest'.active
    /\ Passed' = run[r].latest /\ SameSeasons

Gives(r) ==
    /\ UNCHANGED <<season, row, torn>>
    /\ run[r].pc = "points" /\ run'[r].pc = "close"
    /\ points' = run[r].award

Closes(r) ==
    /\ UNCHANGED <<row, points, torn>>
    /\ run[r].pc = "close" /\ run'[r].pc = "idle"
    /\ Newest'.start = Newest.start /\ Newest'.last = Newest.last /\ Passed' = Passed
    /\ SameSeasons

Stops(r) ==
    /\ UNCHANGED <<season, row, points>>
    /\ run[r].pc # "idle" /\ run'[r].pc = "idle"
    /\ torn' = IF run[r].pc = "season" /\ run[r].batch # <<>> THEN torn + 1 ELSE torn

LEMMA RunUndisturbed ==
  ASSUME TypeOK, InOrder, OneAtATime, NEW r \in Runs, RunStep(r), ~disturbed'
  PROVE  /\ ~disturbed /\ admin = "idle" /\ admin' = "idle"
         /\ UNCHANGED <<now, endAt, won, closed, late>>
         /\ Quiet(r)
         /\ run[r].pc # "idle" => Newest.active
         /\ \/ Begins(r) \/ Fetches(r) \/ GoesOn(r) \/ Adds(r)
            \/ Stores(r) \/ Gives(r) \/ Closes(r) \/ Stops(r)
<1>1. /\ ~disturbed /\ admin = "idle" /\ admin' = "idle" /\ Quiet(r)
      /\ run[r].pc # "idle" =>
           /\ run[r].at = Len(season) /\ run[r].snap = Newest /\ Newest.active
           /\ run[r].pc \in {"completed", "save"} /\ run[r].batch # <<>> => run[r].old = row
           /\ run[r].pc = "save" => run[r].completed = CompletedTasks(row)
  BY OnlyRun DEF Quiet
<1>2. UNCHANGED <<now, endAt, won, closed, late>>
  BY Course
<1>3. Len(season) \in DOMAIN season /\ Newest = season[Len(season)] /\ Newest \in Seasons
        /\ run[r] \in RunStates /\ run \in [Runs -> RunStates]
  BY NewestTyped DEF TypeOK
<1>4. CASE StartRun(r)
  <2>1. PICK s \in DOMAIN season, from \in Times :
          /\ season[s].active /\ run[r].pc = "idle"
          /\ from = IF season[s].last = NoTime THEN season[s].start ELSE season[s].last
          /\ run'[r].pc = "fetch" /\ run'[r].latest = from /\ run'[r].batch = <<>>
    BY <1>4, Started
  <2>2. s = Len(season)
    BY <1>1, <2>1 DEF OneAtATime
  <2>3. UNCHANGED <<season, row, points, torn>>
    BY <1>4 DEF StartRun
  <2> QED BY <1>1, <1>2, <1>3, <2>1, <2>2, <2>3 DEF Begins, Passed
<1>5. ASSUME NEW pc \in {"fetch", "read"}, GetPage(r, pc)
      PROVE  Fetches(r) /\ run[r].pc # "idle"
  <2>1. PICK page, latest :
           /\ PageOf(page, Selected(r)) /\ page \in Seq(Bets)
           /\ latest = LatestOf(run[r].latest, page)
           /\ run[r].pc = "fetch"
           /\ latest \in Times
           /\ run'[r].batch = run[r].batch \o page /\ run'[r].latest = latest
           /\ run'[r].pc = pc
    <3>1. pc \in Stages
      BY DEF Stages
    <3> QED BY <1>5, <3>1, GotPage
  <2>2. UNCHANGED <<season, row, points, torn>>
    BY <1>5 DEF GetPage, history
  <2> QED BY <1>1, <2>1, <2>2 DEF Fetches
<1>6. CASE SaveSeason(r)
  <2>1. PICK snap \in Seasons :
          /\ snap.start = run[r].snap.start /\ snap.end = run[r].snap.end
          /\ snap.active = run[r].snap.active /\ snap.last = run[r].latest
          /\ run[r].pc = "season" /\ run[r].at \in DOMAIN season
          /\ season' = [season EXCEPT ![run[r].at] = snap]
          /\ run'[r].pc = "over"
    BY <1>6, SeasonSaved
  <2>2. Newest' = snap
    BY <1>1, <2>1, Saved DEF Newest
  <2>3. UNCHANGED <<row, points, torn>> /\ run[r].latest \in Times
    BY <1>3, <1>6 DEF SaveSeason, history, RunStates
  <2>4. run[r].latest # NoTime
    BY <2>3, NewestTyped DEF NoTime
  <2>5. Passed' = run[r].latest
    BY <2>1, <2>2, <2>4 DEF Passed
  <2>6. SameSeasons
    BY <1>1, <1>3, <2>1, Saved, NewestTyped DEF SameSeasons
  <2> QED BY <1>1, <1>2, <2>1, <2>2, <2>3, <2>5, <2>6 DEF Stores
<1>7. CASE CloseSeason(r)
  <2> DEFINE snap == [run[r].snap EXCEPT !.active = FALSE]
  <2>1. /\ snap \in Seasons /\ snap.start = run[r].snap.start /\ snap.last = run[r].snap.last
        /\ snap.end = run[r].snap.end
    BY <1>3 DEF RunStates, Seasons
  <2>2. run[r].at \in DOMAIN season /\ season' = [season EXCEPT ![run[r].at] = snap]
          /\ run[r].pc = "close"
    BY <1>7 DEF CloseSeason, InOrder
  <2> HIDE DEF snap
  <2>3. Newest' = snap
    BY <1>1, <2>1, <2>2, Saved DEF Newest
  <2>4. Passed' = Passed
    BY <1>1, <2>1, <2>2, <2>3 DEF Passed
  <2>5. UNCHANGED <<row, points, torn>> /\ run'[r].pc = "idle"
    BY <1>3, <1>7, RowsTyped DEF CloseSeason, history
  <2>6. SameSeasons
    BY <1>1, <1>3, <2>1, <2>2, Saved, NewestTyped DEF SameSeasons
  <2> QED BY <1>1, <1>2, <2>1, <2>2, <2>3, <2>4, <2>5, <2>6 DEF Closes
<1>8. CASE SeasonOver(r) \/ RunEnds(r)
  <2>1. UNCHANGED <<season, row, points>> /\ run[r].pc # "idle"
    BY <1>8 DEF SeasonOver, RunEnds
  <2>2. CASE run'[r] = Idle
    <3>1. torn' = IF run[r].pc = "season" /\ run[r].batch # <<>> THEN torn + 1 ELSE torn
      BY <1>8 DEF SeasonOver, RunEnds, history
    <3> QED BY <1>1, <1>2, <2>1, <2>2, <3>1, RowsTyped DEF Stops
  <2>3. CASE run'[r] # Idle
    <3>1. SeasonOver(r) /\ run' = Step(r, "award")
      BY <1>3, <1>8, <2>3 DEF SeasonOver, RunEnds
    <3>2. run'[r] = [run[r] EXCEPT !.pc = "award"]
      BY <3>1, Stepped DEF Stages
    <3>3. run'[r].batch = run[r].batch /\ run'[r].latest = run[r].latest /\ run'[r].pc = "award"
      BY <1>3, <3>2 DEF RunStates
    <3>4. run[r].pc = "over" /\ torn' = torn
      BY <3>1 DEF SeasonOver, history
    <3> QED BY <1>1, <1>2, <2>1, <3>3, <3>4 DEF GoesOn
  <2> QED BY <1>1, <2>1, <2>2, <2>3
<1>9. CASE FetchFails(r) \/ ReadProgress(r) \/ CountCompleted(r)
  <2>1. UNCHANGED <<season, row, points, torn>> /\ run[r].pc # "idle"
    BY <1>9 DEF FetchFails, ReadProgress, CountCompleted, history
  <2>2. run'[r].batch = run[r].batch /\ run'[r].latest = run[r].latest
    BY <1>3, <1>9 DEF FetchFails, ReadProgress, CountCompleted, Step, RunStates
  <2>3. \/ run[r].pc = "fetch" /\ run'[r].pc \in {"fetch", "read"}
        \/ run[r].pc = "read" /\ run'[r].pc = "completed"
        \/ run[r].pc = "read" /\ run'[r].pc = "season" /\ run[r].batch = <<>>
        \/ run[r].pc = "completed" /\ run'[r].pc = "save"
    BY <1>3, <1>9 DEF FetchFails, ReadProgress, CountCompleted, Step, RunStates
  <2> QED BY <1>1, <1>2, <2>1, <2>2, <2>3 DEF GoesOn
<1>10. CASE SaveProgress(r)
  <2>1. run' = Step(r, "season") /\ run[r].pc = "save" /\ UNCHANGED <<season, points, torn>>
          /\ row' = IF run[r].batch = <<>>
                    THEN [row EXCEPT !.completed = run[r].completed]
                    ELSE Advance(run[r].old, run[r].completed, run[r].batch)
    BY <1>10 DEF SaveProgress, history
  <2>2. run'[r] = [run[r] EXCEPT !.pc = "season"]
    BY <2>1, Stepped DEF Stages
  <2>3. run'[r].batch = run[r].batch /\ run'[r].latest = run[r].latest /\ run'[r].pc = "season"
    BY <1>3, <2>2 DEF RunStates
  <2>4. row' = IF run[r].batch = <<>>
               THEN [row EXCEPT !.completed = CompletedTasks(row)]
               ELSE Advance(row, CompletedTasks(row), run[r].batch)
    BY <1>1, <2>1
  <2>5. row'.bets = row.bets \o run[r].batch
    <3>1. CASE run[r].batch = <<>>
      <4>1. row'.bets = row.bets /\ row.bets \in Seq(Bets)
        BY <2>4, <3>1 DEF TypeOK, Progress
      <4> QED BY <3>1, <4>1
    <3>2. CASE run[r].batch # <<>>
      BY <2>4, <3>2 DEF Advance
    <3> QED BY <3>1, <3>2
  <2> QED BY <1>1, <1>2, <2>1, <2>3, <2>4, <2>5 DEF Adds
<1>11. CASE ReadPoints(r)
  <2> DEFINE award == CalcPoints(row)
             pc == IF award > 0 THEN "points" ELSE "close"
  <2>1. run' = [run EXCEPT ![r] = [run[r] EXCEPT !.award = award, !.pc = pc]]
    BY <1>11 DEF ReadPoints
  <2>2. run[r].pc = "award" /\ UNCHANGED <<season, row, points, torn>>
    BY <1>11 DEF ReadPoints, history
  <2>3. \/ pc = "points"
        \/ pc = "close" /\ ~(award > 0)
    OBVIOUS
  <2> HIDE DEF award, pc
  <2>4. /\ run'[r].batch = run[r].batch /\ run'[r].latest = run[r].latest
        /\ run'[r].award = award /\ run'[r].pc = pc
    BY <1>3, <2>1 DEF RunStates
  <2> QED BY <1>1, <1>2, <2>2, <2>3, <2>4 DEF GoesOn, award
<1>12. CASE SavePoints(r)
  <2>1. run' = Step(r, "close") /\ run[r].pc = "points" /\ points' = run[r].award
          /\ UNCHANGED <<season, row, torn>>
    BY <1>12 DEF SavePoints, history
  <2>2. run'[r] = [run[r] EXCEPT !.pc = "close"]
    BY <2>1, Stepped DEF Stages
  <2> QED BY <1>1, <1>2, <1>3, <2>1, <2>2 DEF Gives, RunStates
<1>13. (FetchPage(r) => GetPage(r, "fetch")) /\ (FetchLastPage(r) => GetPage(r, "read"))
  BY DEF FetchPage, FetchLastPage
<1> QED BY <1>1, <1>2, <1>4, <1>5, <1>6, <1>7, <1>8, <1>9, <1>10, <1>11, <1>12, <1>13 DEF RunStep

Resets ==
    /\ Running = {} /\ admin' # "idle"
    /\ UNCHANGED <<now, closed, late>>
    /\ Newest'.start = Newest.start /\ Newest'.last = Newest.last /\ Passed' = Passed
    /\ SameSeasons
    /\ row' = row \/ row' = NoRow

Inserts ==
    /\ Running = {} /\ admin' = "idle"
    /\ UNCHANGED <<now, closed, row, points>>
    /\ Newest'.start \in Nat /\ Newest'.last = NoTime /\ Newest'.active
    /\ Passed' = Newest'.start
    /\ Len(season') = Len(season) + 1 /\ \A s \in 1..Len(season) : season'[s] = season[s]

GoesBy ==
    /\ UNCHANGED <<season, row, points, admin>>
    /\ \/ now' = now /\ \E b \in Bets : CloseRound(b)
       \/ now' = now + 1 /\ UNCHANGED <<closed, late>>

LEMMA OthersUndisturbed ==
  ASSUME TypeOK, OneAtATime, Others, ~disturbed'
  PROVE  /\ ~disturbed /\ UNCHANGED <<run, endAt, won, torn>>
         /\ Resets \/ Inserts \/ GoesBy
<1> USE DEF world, history
<1>1. ~disturbed /\ Running' = Running /\ UNCHANGED <<run, endAt, won, torn>>
  BY OnlyAdmin, OthersLeave
<1>2. Len(season) \in DOMAIN season /\ Newest = season[Len(season)]
  BY NewestTyped
<1>3. CASE Running = {} /\ \E reset \in BOOLEAN : CallSetNewSeason(reset)
  <2>1. UNCHANGED <<now, closed, late, season, row>> /\ admin' # "idle"
    BY <1>3 DEF CallSetNewSeason, AdminStep
  <2> QED BY <1>1, <1>3, <2>1 DEF Resets, Newest, Passed, SameSeasons
<1>4. CASE Running = {} /\ ResetPoints
  BY <1>1, <1>4 DEF ResetPoints, AdminStep, Resets, Newest, Passed, SameSeasons
<1>5. CASE Running = {} /\ ClearProgress
  BY <1>1, <1>5 DEF ClearProgress, AdminStep, Resets, Newest, Passed, SameSeasons
<1>6. CASE Running = {} /\ DeactivateAll
  <2>1. season' = [s \in DOMAIN season |-> [season[s] EXCEPT !.active = FALSE]]
    BY <1>6 DEF DeactivateAll
  <2>2. \A s \in DOMAIN season : season[s] \in Seasons
    BY DEF TypeOK
  <2>3. Len(season') = Len(season)
    <3>1. DOMAIN season' = 1..Len(season) /\ Len(season) \in Nat
      BY <1>2, <2>1, NewestTyped
    <3>2. season' \in [1..Len(season) -> Seasons]
      <4>1. \A s \in DOMAIN season : [season[s] EXCEPT !.active = FALSE] \in Seasons
        BY <2>2 DEF Seasons
      <4> QED BY <2>1, <3>1, <4>1
    <3> QED BY <3>1, <3>2
  <2>4. Newest' = [Newest EXCEPT !.active = FALSE]
    BY <1>2, <2>1, <2>3 DEF Newest
  <2>5. Newest'.start = Newest.start /\ Newest'.last = Newest.last
    BY <1>2, <2>2, <2>4 DEF Seasons
  <2>6. SameSeasons
    <3>1. \A s \in 1..Len(season) : season[s] \in Seasons /\ s \in DOMAIN season
      BY <2>2, NewestTyped
    <3> QED BY <2>1, <2>3, <3>1 DEF SameSeasons, Seasons
  <2> QED BY <1>1, <1>6, <2>5, <2>6 DEF DeactivateAll, AdminStep, Resets, Passed
<1>7. CASE Running = {} /\ InsertSeason
  <2>1. PICK times \in SeasonTimes : season' = Append(season, NewSeason(times))
    BY <1>7 DEF InsertSeason
  <2>2. Newest' = NewSeason(times)
    BY <2>1, RowsTyped DEF TypeOK, Newest
  <2>3. Newest'.start \in Nat /\ Newest'.last = NoTime /\ Newest'.active
    <3>1. times[1] \in Times /\ \A t \in Times : t \in Nat
      BY Constants, NewestTyped
    <3> QED BY <2>2, <3>1 DEF NewSeason
  <2>4. Len(season') = Len(season) + 1 /\ \A s \in 1..Len(season) : season'[s] = season[s]
    BY <2>1 DEF TypeOK
  <2> QED BY <1>1, <1>7, <2>3, <2>4 DEF InsertSeason, AdminStep, Inserts, Passed
<1>8. CASE \E b \in Bets : CloseRound(b)
  <2>1. PICK b \in Bets : CloseRound(b)
    BY <1>8
  <2>2. UNCHANGED <<now, season, row, points, admin>>
    BY <2>1 DEF CloseRound
  <2> QED BY <1>1, <1>8, <2>2 DEF GoesBy
<1>9. CASE Tick
  BY <1>9 DEF Tick, GoesBy
<1> QED BY <1>1, <1>3, <1>4, <1>5, <1>6, <1>7, <1>8, <1>9, OnlyAdmin

-----------------------------------------------------------------------------
(* A run fetches what ends after the time the processor has got to. *)

Fetched(r) == run[r].pc \in {"fetch", "read", "completed", "save", "season"}

FetchedLater ==
    ~disturbed =>
        /\ Newest.start <= Passed
        /\ \A r \in Runs : Fetched(r) =>
             /\ Passed <= run[r].latest
             /\ \A i \in DOMAIN run[r].batch :
                  Passed < endAt[run[r].batch[i]] /\ endAt[run[r].batch[i]] <= Newest.end

LEMMA FetchedLaterKept ==
  ASSUME TypeOK, InOrder, OneAtATime, FetchedLater, [Next]_vars
  PROVE  FetchedLater'
<1> SUFFICES ASSUME ~disturbed' PROVE FetchedLater'
  BY DEF FetchedLater
<1>1. ASSUME NEW r \in Runs, RunStep(r) PROVE FetchedLater'
  <2>1. /\ ~disturbed /\ UNCHANGED endAt /\ Quiet(r)
        /\ \/ Begins(r) \/ Fetches(r) \/ GoesOn(r) \/ Adds(r)
           \/ Stores(r) \/ Gives(r) \/ Closes(r) \/ Stops(r)
    BY <1>1, RunUndisturbed
  <2>2. /\ Passed \in Nat /\ run[r].latest \in Times /\ run[r].latest \in Nat
        /\ run[r].batch \in Seq(Bets) /\ Newest.start \in Nat
    BY NewestTyped DEF TypeOK, RunStates
  <2>3. Newest.start <= Passed
    BY <2>1 DEF FetchedLater
  <2>4. Newest'.start <= Passed'
    <3>1. CASE Stores(r)
      <4>1. Newest'.start = Newest.start /\ Passed' = run[r].latest /\ Fetched(r)
        BY <3>1 DEF Stores, Fetched
      <4>2. Passed <= run[r].latest
        BY <2>1, <4>1 DEF FetchedLater
      <4> QED BY <2>2, <2>3, <4>1, <4>2
    <3>2. CASE Closes(r)
      BY <2>3, <3>2 DEF Closes
    <3>3. CASE season' = season
      BY <2>3, <3>3 DEF Newest, Passed
    <3> QED BY <2>1, <3>1, <3>2, <3>3 DEF Begins, Fetches, GoesOn, Adds, Gives, Stops
  <2> SUFFICES ASSUME Fetched(r)'
               PROVE  /\ Passed' <= run'[r].latest
                      /\ \A i \in DOMAIN run'[r].batch :
                           /\ Passed' < endAt'[run'[r].batch[i]]
                           /\ endAt'[run'[r].batch[i]] <= Newest'.end
    BY <2>1, <2>4 DEF FetchedLater, Fetched, Quiet
  <2>5. CASE Begins(r)
    BY <2>2, <2>5 DEF Begins, Passed, Newest
  <2>6. CASE Fetches(r)
    <3>1. PICK page \in Seq(Bets), latest \in Times :
            /\ PageOf(page, Selected(r)) /\ latest = LatestOf(run[r].latest, page)
            /\ run'[r].batch = run[r].batch \o page /\ run'[r].latest = latest
      BY <2>6 DEF Fetches
    <3>2. Passed' = Passed /\ Newest' = Newest /\ Fetched(r) /\ run[r].snap.end = Newest.end
      BY <2>6 DEF Fetches, Passed, Newest, Fetched
    <3>3. run[r].latest <= latest /\ latest \in Nat
      BY <2>2, <3>1, LatestIs, NewestTyped
    <3>4. /\ Passed <= run[r].latest
          /\ \A i \in DOMAIN run[r].batch :
               Passed < endAt[run[r].batch[i]] /\ endAt[run[r].batch[i]] <= Newest.end
      BY <2>1, <3>2 DEF FetchedLater
    <3>5. \A i \in DOMAIN page : /\ page[i] \in Bets /\ run[r].latest < endAt[page[i]]
                                 /\ endAt[page[i]] <= Newest.end
      BY <3>1, <3>2 DEF PageOf, Selected
    <3>6. \A i \in DOMAIN page : Passed < endAt[page[i]]
      <4> SUFFICES ASSUME NEW i \in DOMAIN page PROVE Passed < endAt[page[i]]
        OBVIOUS
      <4> DEFINE e == endAt[page[i]]
                 m == run[r].latest
      <4>1. e \in Nat /\ m \in Nat /\ m < e /\ Passed <= m
        BY <2>2, <3>4, <3>5, Ends
      <4> HIDE DEF e, m
      <4>2. Passed < e
        BY <2>2, <4>1
      <4> QED BY <4>2 DEF e
    <3>7. ASSUME NEW i \in DOMAIN (run[r].batch \o page)
          PROVE  /\ Passed < endAt[(run[r].batch \o page)[i]]
                 /\ endAt[(run[r].batch \o page)[i]] <= Newest.end
      BY <2>2, <3>1, <3>4, <3>5, <3>6, Joined
    <3>8. Passed <= latest
      BY <2>2, <3>3, <3>4
    <3> QED BY <2>1, <3>1, <3>2, <3>7, <3>8
  <2>7. CASE GoesOn(r) \/ Adds(r)
    <3>1. Passed' = Passed /\ Newest' = Newest /\ Fetched(r)
            /\ run'[r].batch = run[r].batch /\ run'[r].latest = run[r].latest
      BY <2>7 DEF GoesOn, Adds, Passed, Newest, Fetched
    <3> QED BY <2>1, <3>1 DEF FetchedLater
  <2>8. CASE Stores(r) \/ Gives(r) \/ Closes(r) \/ Stops(r)
    BY <2>8 DEF Stores, Gives, Closes, Stops, Fetched
  <2> QED BY <2>1, <2>5, <2>6, <2>7, <2>8
<1>2. CASE Others
  <2>1. ~disturbed /\ UNCHANGED <<run, endAt>> /\ (Resets \/ Inserts \/ GoesBy)
    BY <1>2, OthersUndisturbed
  <2>2. CASE Resets
    BY <2>1, <2>2 DEF Resets, Running, Fetched, FetchedLater
  <2>3. CASE Inserts
    <3>1. Newest'.start <= Passed'
      BY <2>3 DEF Inserts
    <3> QED BY <2>1, <2>3, <3>1 DEF Inserts, Running, Fetched, FetchedLater
  <2>4. CASE GoesBy
    BY <2>1, <2>4 DEF GoesBy, Passed, Newest, Fetched, FetchedLater
  <2> QED BY <2>1, <2>2, <2>3, <2>4
<1>3. CASE UNCHANGED vars
  BY <1>3 DEF vars, world, history, FetchedLater, Fetched, Passed, Newest
<1> QED BY <1>1, <1>2, <1>3 DEF Next, Others

-----------------------------------------------------------------------------
(* The seasons that cover a bet: those before the newest, and the newest. *)

Earlier(b) == Cardinality({s \in 1..(Len(season) - 1) : Covers(s, b)})

CoversNow(b) == Covers(Len(season), b)

LEMMA EarlierTyped ==
  ASSUME TypeOK, NEW b \in Bets
  PROVE  /\ Earlier(b) \in Nat
         /\ Cardinality({s \in DOMAIN season : Covers(s, b)})
              = Earlier(b) + (IF CoversNow(b) THEN 1 ELSE 0)
<1> DEFINE n == Len(season)
           before == {s \in 1..(n - 1) : Covers(s, b)}
<1>1. n \in Nat \ {0} /\ DOMAIN season = 1..n
  BY DEF TypeOK
<1>2. IsFiniteSet(before) /\ Cardinality(before) \in Nat
  <2>1. IsFiniteSet(1..(n - 1))
    BY <1>1, FS_Interval
  <2> QED BY <2>1, FS_Subset, FS_CardinalityType
<1>3. n \notin before
  BY <1>1
<1>4. CASE CoversNow(b)
  <2>1. {s \in DOMAIN season : Covers(s, b)} = before \cup {n}
    BY <1>1, <1>4 DEF CoversNow
  <2>2. Cardinality(before \cup {n}) = Cardinality(before) + 1
    BY <1>2, <1>3, FS_AddElement
  <2> QED BY <1>2, <1>4, <2>1, <2>2 DEF Earlier
<1>5. CASE ~CoversNow(b)
  <2>1. {s \in DOMAIN season : Covers(s, b)} = before
    BY <1>1, <1>5 DEF CoversNow
  <2>2. Cardinality(before) = Cardinality(before) + 0
    BY <1>2
  <2> QED BY <1>2, <1>5, <2>1, <2>2 DEF Earlier
<1> QED BY <1>4, <1>5

\* As long as start and end of the seasons stay, the same cover a bet.
LEMMA EarlierStays ==
  ASSUME TypeOK, NEW b \in Bets, endAt' = endAt, SameSeasons
  PROVE  Earlier(b)' = Earlier(b) /\ CoversNow(b)' = CoversNow(b)
<1>1. Len(season) \in Nat \ {0} /\ Len(season') = Len(season)
  BY DEF TypeOK, SameSeasons
<1>2. ASSUME NEW s \in 1..Len(season) PROVE Covers(s, b)' = Covers(s, b)
  BY DEF SameSeasons, Covers
<1>3. \A s \in 1..(Len(season) - 1) : s \in 1..Len(season)
  BY <1>1
<1>4. Len(season) \in 1..Len(season)
  BY <1>1
<1>5. {s \in 1..(Len(season) - 1) : Covers(s, b)}' = {s \in 1..(Len(season) - 1) : Covers(s, b)}
  BY <1>1, <1>2, <1>3
<1> QED BY <1>1, <1>2, <1>4, <1>5 DEF Earlier, CoversNow

\* A season more: the one before is now among the earlier ones.
LEMMA EarlierInserts ==
  ASSUME TypeOK, NEW b \in Bets, endAt' = endAt, Inserts
  PROVE  Earlier(b)' = Earlier(b) + (IF CoversNow(b) THEN 1 ELSE 0)
<1>1. /\ Len(season) \in Nat /\ Len(season') = Len(season) + 1
      /\ DOMAIN season = 1..Len(season)
  BY DEF TypeOK, Inserts
<1>2. Len(season') - 1 = Len(season)
  BY <1>1
<1>3. ASSUME NEW s \in 1..Len(season) PROVE Covers(s, b)' = Covers(s, b)
  BY DEF Inserts, Covers
<1>4. {s \in 1..(Len(season) - 1) : Covers(s, b)}' = {s \in DOMAIN season : Covers(s, b)}
  BY <1>1, <1>2, <1>3
<1> QED BY <1>4, EarlierTyped DEF Earlier

-----------------------------------------------------------------------------
(* Each season adds a bet it covers once, and once more for each time that   *)
(* was not stored.                                                           *)

Adding(b) ==
    \E r \in Runs : run[r].pc = "season" /\ \E i \in DOMAIN run[r].batch : run[r].batch[i] = b

Before(b) == TimesCounted(b) <= torn + Earlier(b)

Now(b) == CoversNow(b) /\ TimesCounted(b) <= torn + Earlier(b) + 1

Counted ==
    ~disturbed =>
        \A b \in Bets : Before(b) \/ (Now(b) /\ (endAt[b] <= Passed \/ Adding(b)))

\* In a list without repetitions a bet is counted once.
LEMMA OnceInBatch ==
  ASSUME TypeOK, NEW r \in Runs, BatchInOrder(run[r]), NEW b
  PROVE  /\ CountIn(run[r].batch, {b}) \in {0, 1}
         /\ CountIn(run[r].batch, {b}) = 1 <=> \E i \in DOMAIN run[r].batch : run[r].batch[i] = b
<1> DEFINE batch == run[r].batch
           at == {i \in DOMAIN batch : batch[i] \in {b}}
<1>1. batch \in Seq(Bets)
  BY DEF TypeOK, RunStates
<1>2. \A i, j \in DOMAIN batch : i \in Nat /\ j \in Nat /\ (i < j => batch[i] # batch[j])
  BY <1>1 DEF BatchInOrder
<1>3. \A i, j \in at : i = j
  BY <1>2
<1>4. CountIn(batch, {b}) = Cardinality(at)
  BY DEF CountIn
<1>5. CASE at = {}
  <2>1. Cardinality(at) = 0
    BY <1>5, FS_EmptySet
  <2> QED BY <1>4, <1>5, <2>1
<1>6. CASE at # {}
  <2>1. PICK i : i \in at
    BY <1>6
  <2>2. at = {i}
    BY <1>3, <2>1
  <2> HIDE DEF at
  <2>3. Cardinality(at) = 1
    BY <2>2, FS_Singleton
  <2>4. i \in DOMAIN batch /\ batch[i] = b
    BY <2>1 DEF at
  <2> QED BY <1>4, <2>3, <2>4
<1> QED BY <1>5, <1>6

\* What was true of the times a bet is counted stays true.
LEMMA CountStays ==
  ASSUME TypeOK, NEW b \in Bets, SameSeasons, UNCHANGED <<endAt, row, torn>>
  PROVE  /\ Before(b)' = Before(b) /\ Now(b)' = Now(b)
         /\ TimesCounted(b)' = TimesCounted(b) /\ Earlier(b)' = Earlier(b)
<1>1. Earlier(b)' = Earlier(b) /\ CoversNow(b)' = CoversNow(b)
  BY EarlierStays
<1>2. TimesCounted(b)' = TimesCounted(b)
  BY DEF TimesCounted, CountIn
<1> QED BY <1>1, <1>2 DEF Before, Now

LEMMA CountedKept ==
  ASSUME TypeOK, InOrder, OneAtATime, FetchedLater, Counted, [Next]_vars
  PROVE  Counted'
<1> SUFFICES ASSUME ~disturbed' PROVE Counted'
  BY DEF Counted
<1>0. season' = season => SameSeasons
  BY DEF SameSeasons
<1>1. ASSUME NEW r \in Runs, RunStep(r) PROVE Counted'
  <2>1. /\ ~disturbed /\ UNCHANGED <<now, endAt, won, closed, late>> /\ Quiet(r)
        /\ \/ Begins(r) \/ Fetches(r) \/ GoesOn(r) \/ Adds(r)
           \/ Stores(r) \/ Gives(r) \/ Closes(r) \/ Stops(r)
    BY <1>1, RunUndisturbed
  <2>2. \A b \in Bets : Before(b) \/ (Now(b) /\ (endAt[b] <= Passed \/ Adding(b)))
    BY <2>1 DEF Counted
  <2>3. /\ Passed \in Nat /\ torn \in Nat /\ run[r].latest \in Nat
        /\ run[r].batch \in Seq(Bets) /\ row.bets \in Seq(Bets) /\ row \in Progress
    <3>1. run[r] \in RunStates /\ row \in Progress /\ torn \in 0..MaxTorn
      BY DEF TypeOK
    <3>2. run[r].latest \in Times /\ run[r].batch \in Seq(Bets) /\ row.bets \in Seq(Bets)
      BY <3>1 DEF RunStates, Progress
    <3> QED BY <3>1, <3>2, NewestTyped, Constants
  <2>4. BatchInOrder(run[r])
    BY DEF InOrder
  <2>5. CASE Adds(r)
    <3> DEFINE old == row.bets
               batch == run[r].batch
    <3>1. row'.bets = old \o batch
      BY <2>5 DEF Adds
    <3>2. UNCHANGED <<season, torn, Passed>>
      BY <2>5 DEF Adds, Passed, Newest
    <3>3. ASSUME NEW b \in Bets PROVE Before(b)' \/ (Now(b)' /\ (endAt[b] <= Passed \/ Adding(b)'))
      <4>1. CountIn(old \o batch, {b}) = CountIn(old, {b}) + CountIn(batch, {b})
        BY <2>3, CountAdd
      <4>2. /\ CountIn(batch, {b}) \in {0, 1}
            /\ CountIn(batch, {b}) = 1 <=> \E i \in DOMAIN batch : batch[i] = b
        BY <2>4, OnceInBatch
      <4>3. TimesCounted(b) \in Nat /\ TimesCounted(b)' = TimesCounted(b) + CountIn(batch, {b})
        BY <2>3, <3>1, <4>1, CountTyped DEF TimesCounted
      <4>4. ~Adding(b)
        BY <2>1, <2>5 DEF Adds, Adding, Quiet
      <4>5. /\ Earlier(b) \in Nat /\ Earlier(b)' = Earlier(b)
            /\ CoversNow(b)' = CoversNow(b)
        BY <1>0, <2>1, <3>2, EarlierTyped, EarlierStays
      <4>6. CASE \E i \in DOMAIN batch : batch[i] = b
        <5>1. Passed < endAt[b] /\ endAt[b] <= Newest.end /\ Newest.start <= Passed
          BY <2>1, <2>5, <4>6 DEF Adds, Fetched, FetchedLater
        <5>2. Newest.start \in Nat /\ endAt[b] \in Nat
          BY NewestTyped, Ends
        <5>3. CoversNow(b)
          BY <2>3, <5>1, <5>2 DEF CoversNow, Covers, Newest
        <5>4. Before(b)
          BY <2>2, <2>3, <4>4, <5>1, <5>2
        <5>5. Adding(b)'
          BY <2>5, <4>6 DEF Adds, Adding
        <5>6. TimesCounted(b)' = TimesCounted(b) + 1
          BY <4>2, <4>3, <4>6
        <5>7. TimesCounted(b)' <= torn' + Earlier(b)' + 1
          BY <2>3, <3>2, <4>3, <4>5, <5>4, <5>6 DEF Before
        <5> QED BY <4>5, <5>3, <5>5, <5>7 DEF Now
      <4>7. CASE ~\E i \in DOMAIN batch : batch[i] = b
        <5>1. TimesCounted(b)' = TimesCounted(b)
          BY <4>2, <4>3, <4>7
        <5>2. Before(b)' = Before(b) /\ Now(b)' = Now(b)
          BY <3>2, <4>5, <5>1 DEF Before, Now
        <5> QED BY <2>2, <4>4, <5>2
      <4> QED BY <4>6, <4>7
    <3> QED BY <2>1, <3>2, <3>3 DEF Counted
  <2>7. CASE Begins(r) \/ Fetches(r) \/ GoesOn(r) \/ Gives(r) \/ Closes(r)
    <3>1. UNCHANGED <<row, torn, Passed>> /\ SameSeasons
      BY <1>0, <2>7 DEF Begins, Fetches, GoesOn, Gives, Closes, Passed, Newest
    <3>2. \A b \in Bets : ~Adding(b)
      BY <2>1, <2>7 DEF Begins, Fetches, GoesOn, Gives, Closes, Adding, Quiet
    <3>3. \A b \in Bets : Before(b)' = Before(b) /\ Now(b)' = Now(b)
      BY <2>1, <3>1, CountStays
    <3> QED BY <2>1, <2>2, <3>1, <3>2, <3>3 DEF Counted
  <2>8. CASE Stores(r)
    <3>1. /\ row' = row /\ torn' = torn /\ Passed' = run[r].latest /\ Fetched(r)
          /\ SameSeasons
      BY <2>8 DEF Stores, Fetched
    <3>2. Passed <= run[r].latest
      BY <2>1, <3>1 DEF FetchedLater
    <3>3. ASSUME NEW b \in Bets, endAt[b] <= Passed \/ Adding(b) PROVE endAt[b] <= Passed'
      <4>1. endAt[b] \in Nat
        BY Ends
      <4>2. CASE Adding(b)
        <5>1. \E i \in DOMAIN run[r].batch : run[r].batch[i] = b
          BY <2>1, <2>8, <4>2 DEF Stores, Adding, Quiet
        <5> QED BY <2>4, <3>1, <5>1 DEF BatchInOrder
      <4> QED BY <2>3, <3>1, <3>2, <3>3, <4>1, <4>2
    <3>4. \A b \in Bets : Before(b)' = Before(b) /\ Now(b)' = Now(b)
      BY <2>1, <3>1, CountStays
    <3> QED BY <2>1, <2>2, <3>3, <3>4 DEF Counted
  <2>9. CASE Stops(r)
    <3>1. UNCHANGED <<row, Passed>> /\ SameSeasons
      BY <1>0, <2>9 DEF Stops, Passed, Newest
    <3>2. ASSUME NEW b \in Bets PROVE Before(b)' \/ (Now(b)' /\ endAt[b] <= Passed)
      <4>1. TimesCounted(b)' = TimesCounted(b)
        BY <3>1 DEF TimesCounted, CountIn
      <4>2. /\ Earlier(b) \in Nat /\ Earlier(b)' = Earlier(b)
            /\ CoversNow(b)' = CoversNow(b)
        BY <2>1, <3>1, EarlierTyped, EarlierStays
      <4>3. TimesCounted(b) \in Nat
        BY <2>3, CountTyped DEF TimesCounted
      <4>4. CASE torn' = torn + 1
        <5>1. TimesCounted(b) <= torn + Earlier(b) + 1
          BY <2>2, <2>3, <4>2, <4>3 DEF Before, Now
        <5>2. TimesCounted(b)' <= torn' + Earlier(b)'
          BY <2>3, <4>1, <4>2, <4>3, <4>4, <5>1
        <5> QED BY <5>2 DEF Before
      <4>5. CASE torn' = torn /\ ~(run[r].pc = "season" /\ run[r].batch # <<>>)
        <5>1. ~Adding(b)
          BY <2>1, <2>9, <4>5 DEF Stops, Adding, Quiet
        <5>2. Before(b)' = Before(b) /\ Now(b)' = Now(b)
          BY <4>1, <4>2, <4>5 DEF Before, Now
        <5> QED BY <2>2, <5>1, <5>2
      <4> QED BY <2>9, <4>4, <4>5 DEF Stops
    <3> QED BY <2>1, <3>1, <3>2 DEF Counted
  <2> QED BY <2>1, <2>5, <2>7, <2>8, <2>9
<1>2. CASE Others
  <2>1. ~disturbed /\ UNCHANGED <<run, endAt, torn>> /\ (Resets \/ Inserts \/ GoesBy)
    BY <1>2, OthersUndisturbed
  <2>2. /\ row.bets \in Seq(Bets) /\ torn \in Nat
        /\ \A b \in Bets : TimesCounted(b) \in Nat /\ Earlier(b) \in Nat
    <3>1. row.bets \in Seq(Bets) /\ torn \in Nat
      BY Constants DEF TypeOK, Progress
    <3> QED BY <3>1, EarlierTyped, CountTyped DEF TimesCounted
  <2>3. \A b \in Bets : Before(b) \/ (Now(b) /\ (endAt[b] <= Passed \/ Adding(b)))
    BY <2>1 DEF Counted
  <2>4. \A b \in Bets : Adding(b)' = Adding(b)
    BY <2>1 DEF Adding
  <2>5. CASE Resets /\ row' = NoRow
    <3>1. row'.bets = <<>> /\ SameSeasons
      BY <2>5, RowsTyped DEF Resets
    <3>2. ASSUME NEW b \in Bets PROVE Before(b)'
      <4>1. CountIn(<<>>, {b}) = 0
        <5>1. <<>> \in Seq(Bets)
          OBVIOUS
        <5> QED BY <5>1, CountTyped, Zenon
      <4>2. TimesCounted(b)' = 0
        BY <3>1, <4>1 DEF TimesCounted
      <4>3. Earlier(b)' = Earlier(b)
        BY <2>1, <3>1, EarlierStays
      <4> QED BY <2>1, <2>2, <4>2, <4>3 DEF Before
    <3> QED BY <3>2 DEF Counted
  <2>6. CASE (Resets \/ GoesBy) /\ row' = row
    <3>1. Passed' = Passed /\ SameSeasons
      BY <1>0, <2>6 DEF Resets, GoesBy, Passed, Newest
    <3>2. \A b \in Bets : Before(b)' = Before(b) /\ Now(b)' = Now(b)
      BY <2>1, <2>6, <3>1, CountStays
    <3> QED BY <2>1, <2>3, <2>4, <3>1, <3>2 DEF Counted
  <2>7. CASE Inserts
    <3>1. ASSUME NEW b \in Bets PROVE Before(b)'
      <4>1. Earlier(b)' = Earlier(b) + (IF CoversNow(b) THEN 1 ELSE 0)
        BY <2>1, <2>7, EarlierInserts
      <4>2. TimesCounted(b)' = TimesCounted(b)
        BY <2>7 DEF Inserts, TimesCounted, CountIn
      <4>3. TimesCounted(b) <= torn + Earlier(b) + (IF CoversNow(b) THEN 1 ELSE 0)
        BY <2>2, <2>3 DEF Before, Now
      <4>4. TimesCounted(b)' <= torn' + Earlier(b)'
        BY <2>1, <2>2, <4>1, <4>2, <4>3
      <4> QED BY <4>4 DEF Before
    <3> QED BY <3>1 DEF Counted
  <2>8. GoesBy => row' = row
    BY DEF GoesBy
  <2> QED BY <2>1, <2>5, <2>6, <2>7, <2>8 DEF Resets
<1>3. CASE UNCHANGED vars
  <2>1. ~disturbed /\ UNCHANGED <<endAt, row, torn, run, season>>
    BY <1>3 DEF vars, world, history
  <2>2. \A b \in Bets : Before(b)' = Before(b) /\ Now(b)' = Now(b)
    BY <1>0, <2>1, CountStays
  <2>3. Passed' = Passed /\ \A b \in Bets : Adding(b)' = Adding(b)
    BY <2>1 DEF Passed, Newest, Adding
  <2> QED BY <2>1, <2>2, <2>3 DEF Counted
<1> QED BY <1>1, <1>2, <1>3 DEF Next, Others

-----------------------------------------------------------------------------
(* What the time stored has passed was added. *)

Alone(b) == \A c \in Bets \ {b} : endAt[c] # endAt[b]

NothingLeft ==
    ~disturbed => \A b \in closed \ late : Alone(b) =>
        /\ admin = "idle" /\ Newest.start < endAt[b] /\ endAt[b] <= Newest.last
             => TimesCounted(b) >= 1
        /\ \A r \in Runs : Fetched(r) /\ Passed < endAt[b] /\ endAt[b] <= run[r].latest =>
             /\ \E i \in DOMAIN run[r].batch : run[r].batch[i] = b
             /\ run[r].pc = "season" => TimesCounted(b) >= 1

\* What a page reaches and the pages before did not is on it.
LEMMA PageReaches ==
  ASSUME TypeOK, InOrder, NEW r \in Runs, NEW page \in Seq(Bets), PageOf(page, Selected(r)),
         NEW b \in closed, Alone(b), run[r].latest < endAt[b],
         endAt[b] <= LatestOf(run[r].latest, page)
  PROVE  \E i \in DOMAIN page : page[i] = b
<1> DEFINE m == run[r].latest
           z == LatestOf(m, page)
           e == endAt[b]
<1>1. m \in Times /\ b \in Bets /\ e \in Nat /\ m \in Nat
  BY Ends, NewestTyped DEF TypeOK, RunStates
<1>2. z = m \/ \E i \in DOMAIN page : z = endAt[page[i]]
  BY <1>1, LatestIs
<1>3. z # m
  BY <1>1
<1>4. PICK i \in DOMAIN page : z = endAt[page[i]]
  BY <1>2, <1>3
<1>5. page[i] \in Selected(r) /\ page[i] \in Bets /\ endAt[page[i]] \in Nat
  BY Ends DEF PageOf
<1>6. run[r].snap.end \in Nat
  <2>1. run[r].snap \in Seasons
    BY DEF TypeOK, RunStates
  <2> QED BY <2>1, Constants DEF Seasons
<1>7. b \in Selected(r)
  <2>1. endAt[page[i]] <= run[r].snap.end
    BY <1>5 DEF Selected
  <2>2. e <= run[r].snap.end
    BY <1>1, <1>4, <1>5, <1>6, <2>1
  <2> QED BY <2>2 DEF Selected
<1>8. CASE ~\E j \in DOMAIN page : page[j] = b
  <2>1. endAt[page[i]] <= endAt[b]
    BY <1>7, <1>8 DEF PageOf
  <2>2. endAt[page[i]] = endAt[b]
    BY <1>1, <1>4, <1>5, <2>1
  <2>3. page[i] = b
    BY <1>5, <2>2 DEF Alone
  <2> QED BY <2>3
<1> QED BY <1>8

LEMMA NothingLeftKept ==
  ASSUME TypeOK, InOrder, OneAtATime, FetchedLater, NothingLeft, [Next]_vars
  PROVE  NothingLeft'
<1> SUFFICES ASSUME ~disturbed' PROVE NothingLeft'
  BY DEF NothingLeft
<1>1. ASSUME NEW r \in Runs, RunStep(r) PROVE NothingLeft'
  <2>1. /\ ~disturbed /\ UNCHANGED <<now, endAt, won, closed, late>> /\ Quiet(r)
        /\ admin = "idle" /\ admin' = "idle"
        /\ \/ Begins(r) \/ Fetches(r) \/ GoesOn(r) \/ Adds(r)
           \/ Stores(r) \/ Gives(r) \/ Closes(r) \/ Stops(r)
    BY <1>1, RunUndisturbed
  <2> SUFFICES ASSUME NEW b \in closed \ late, Alone(b)
               PROVE  /\ Newest'.start < endAt[b] /\ endAt[b] <= Newest'.last
                           => TimesCounted(b)' >= 1
                      /\ Fetched(r)' /\ Passed' < endAt[b] /\ endAt[b] <= run'[r].latest =>
                           /\ \E i \in DOMAIN run'[r].batch : run'[r].batch[i] = b
                           /\ run'[r].pc = "season" => TimesCounted(b)' >= 1
    BY <2>1 DEF NothingLeft, Alone, Fetched, Quiet
  <2>2. /\ Newest.start < endAt[b] /\ endAt[b] <= Newest.last => TimesCounted(b) >= 1
        /\ Fetched(r) /\ Passed < endAt[b] /\ endAt[b] <= run[r].latest =>
             /\ \E i \in DOMAIN run[r].batch : run[r].batch[i] = b
             /\ run[r].pc = "season" => TimesCounted(b) >= 1
    BY <2>1 DEF NothingLeft
  <2>3. /\ Passed \in Nat /\ run[r].latest \in Nat /\ b \in Bets /\ endAt[b] \in Nat
        /\ run[r].batch \in Seq(Bets) /\ row.bets \in Seq(Bets)
    <3>1. run[r] \in RunStates /\ row \in Progress /\ b \in Bets
      BY DEF TypeOK
    <3>2. run[r].latest \in Times /\ run[r].batch \in Seq(Bets) /\ row.bets \in Seq(Bets)
      BY <3>1 DEF RunStates, Progress
    <3> QED BY <3>1, <3>2, NewestTyped, Ends
  <2>4. row' = row => TimesCounted(b)' = TimesCounted(b)
    BY DEF TimesCounted, CountIn
  <2>5. CASE Begins(r)
    <3>1. UNCHANGED <<row, Newest, Passed>> /\ run'[r].latest = Passed
      BY <2>5 DEF Begins, Newest, Passed
    <3> QED BY <2>2, <2>3, <2>4, <3>1
  <2>6. CASE Fetches(r)
    <3>1. PICK page \in Seq(Bets), latest \in Times :
            /\ PageOf(page, Selected(r)) /\ latest = LatestOf(run[r].latest, page)
            /\ run'[r].batch = run[r].batch \o page /\ run'[r].latest = latest
            /\ UNCHANGED <<row, Newest, Passed>> /\ run'[r].pc # "season" /\ Fetched(r)
      BY <2>6 DEF Fetches, Newest, Passed, Fetched
    <3>2. ASSUME Passed < endAt[b], endAt[b] <= latest
          PROVE  \E i \in DOMAIN (run[r].batch \o page) : (run[r].batch \o page)[i] = b
      <4>1. CASE endAt[b] <= run[r].latest
        <5>1. PICK i \in DOMAIN run[r].batch : run[r].batch[i] = b
          BY <2>2, <3>1, <3>2, <4>1
        <5>2. i \in DOMAIN (run[r].batch \o page) /\ (run[r].batch \o page)[i] = b
          BY <2>3, <5>1
        <5> QED BY <5>2
      <4>2. CASE ~(endAt[b] <= run[r].latest)
        <5>1. run[r].latest < endAt[b]
          BY <2>3, <4>2
        <5>2. PICK i \in DOMAIN page : page[i] = b
          BY <3>1, <3>2, <5>1, PageReaches
        <5> DEFINE batch == run[r].batch
                   j == Len(batch) + i
        <5>3. batch \in Seq(Bets) /\ page \in Seq(Bets)
          BY <2>3
        <5> HIDE DEF batch
        <5>4. j \in DOMAIN (batch \o page) /\ (batch \o page)[j] = b
          BY <5>2, <5>3
        <5> QED BY <5>4 DEF batch
      <4> QED BY <4>1, <4>2
    <3> QED BY <2>2, <2>3, <2>4, <3>1, <3>2
  <2>7. CASE Adds(r)
    <3> DEFINE old == row.bets
               batch == run[r].batch
    <3>1. /\ row'.bets = old \o batch /\ UNCHANGED <<Newest, Passed>> /\ Fetched(r)
          /\ run'[r].batch = batch /\ run'[r].latest = run[r].latest
      BY <2>7 DEF Adds, Advance, Newest, Passed, Fetched
    <3>2. TimesCounted(b)' = TimesCounted(b) + CountIn(batch, {b})
      BY <2>3, <3>1, CountAdd DEF TimesCounted
    <3>3. /\ TimesCounted(b) \in Nat /\ CountIn(batch, {b}) \in Nat
          /\ (\E i \in DOMAIN batch : batch[i] = b) => CountIn(batch, {b}) # 0
      <4>1. TimesCounted(b) \in Nat
        BY <2>3, CountTyped DEF TimesCounted
      <4>2. batch \in Seq(Bets)
        BY <2>3
      <4> HIDE DEF batch
      <4>3. /\ CountIn(batch, {b}) \in Nat
            /\ CountIn(batch, {b}) = 0 <=> \A i \in DOMAIN batch : batch[i] \notin {b}
        BY <4>2, CountTyped
      <4> QED BY <4>1, <4>3
    <3> HIDE DEF old, batch
    <3>4. TimesCounted(b) >= 1 \/ CountIn(batch, {b}) # 0 => TimesCounted(b)' >= 1
      BY <3>2, <3>3
    <3> QED BY <2>2, <3>1, <3>3, <3>4 DEF batch
  <2>8. CASE GoesOn(r)
    <3>1. /\ UNCHANGED <<row, Newest, Passed>>
          /\ run'[r].batch = run[r].batch /\ run'[r].latest = run[r].latest
          /\ Fetched(r)' => Fetched(r)
          /\ run'[r].pc = "season" => run[r].batch = <<>>
      BY <2>8 DEF GoesOn, Newest, Passed, Fetched
    <3>2. run[r].batch = <<>> => ~\E i \in DOMAIN run[r].batch : run[r].batch[i] = b
      OBVIOUS
    <3> QED BY <2>2, <2>4, <3>1, <3>2
  <2>9. CASE Stores(r)
    <3>1. /\ row' = row /\ Newest'.start = Newest.start /\ Newest'.last = run[r].latest
          /\ run[r].pc = "season" /\ Fetched(r) /\ ~Fetched(r)'
      BY <2>9 DEF Stores, Fetched
    <3>2. ASSUME Newest.start < endAt[b], endAt[b] <= run[r].latest PROVE TimesCounted(b) >= 1
      <4>1. CASE Passed < endAt[b]
        BY <2>2, <3>1, <3>2, <4>1
      <4>2. CASE ~(Passed < endAt[b])
        <5>1. Newest.start \in Nat
          BY NewestTyped
        <5>2. Passed # Newest.start /\ endAt[b] <= Passed
          BY <2>3, <3>2, <4>2, <5>1
        <5>3. endAt[b] <= Newest.last
          BY <5>2 DEF Passed
        <5> QED BY <2>2, <3>2, <5>3
      <4> QED BY <4>1, <4>2
    <3> QED BY <2>4, <3>1, <3>2
  <2>10. CASE Gives(r) \/ Closes(r) \/ Stops(r)
    <3>1. /\ row' = row /\ Newest'.start = Newest.start /\ Newest'.last = Newest.last
          /\ ~Fetched(r)'
      BY <2>10 DEF Gives, Closes, Stops, Fetched, Newest
    <3> QED BY <2>2, <2>4, <3>1
  <2> QED BY <2>1, <2>5, <2>6, <2>7, <2>8, <2>9, <2>10
<1>2. CASE Others
  <2>1. ~disturbed /\ UNCHANGED <<run, endAt, torn>> /\ (Resets \/ Inserts \/ GoesBy)
    BY <1>2, OthersUndisturbed
  <2>2. CASE Resets
    BY <2>1, <2>2 DEF Resets, Running, Fetched, NothingLeft, Alone
  <2>3. CASE Inserts
    <3>1. Newest'.last = NoTime /\ closed' = closed /\ Running = {}
      BY <2>3 DEF Inserts
    <3>2. \A b \in closed : ~(endAt[b] <= NoTime)
      <4>1. \A b \in closed : b \in Bets
        BY DEF TypeOK
      <4> QED BY <4>1, Ends DEF NoTime
    <3>3. \A r \in Runs : ~Fetched(r)'
      BY <2>1, <3>1 DEF Running, Fetched
    <3> QED BY <2>1, <3>1, <3>2, <3>3 DEF NothingLeft
  <2>4. CASE GoesBy
    <3>1. UNCHANGED <<season, row, admin, Newest, Passed>>
      BY <2>4 DEF GoesBy, Newest, Passed
    <3>2. \A b \in Bets : TimesCounted(b)' = TimesCounted(b)
      BY <3>1 DEF TimesCounted, CountIn
    <3>3. CASE UNCHANGED <<closed, late>>
      <4>1. closed \subseteq Bets
        BY DEF TypeOK
      <4> QED BY <2>1, <3>1, <3>2, <3>3, <4>1 DEF NothingLeft, Alone, Fetched
    <3>4. ASSUME NEW c \in Bets, CloseRound(c) PROVE NothingLeft'
      <4>1. /\ closed' = closed \cup {c} /\ late \subseteq late' /\ c \notin closed
            /\ late' = IF \/ endAt[c] <= Newest.last
                          \/ \E r \in Running : endAt[c] <= run[r].latest
                       THEN late \cup {c} ELSE late
        BY <3>4 DEF CloseRound
      <4>2. ASSUME NEW b \in closed' \ late', b = c, Alone(b)
            PROVE  /\ ~(endAt[b] <= Newest.last)
                   /\ \A r \in Runs : Fetched(r) => ~(endAt[b] <= run[r].latest)
        BY <4>1, <4>2 DEF Running, Fetched
      <4>3. ASSUME NEW b \in closed' \ late', b # c
            PROVE  b \in closed \ late /\ b \in Bets
        BY <4>1, <4>3 DEF TypeOK
      <4> QED BY <2>1, <3>1, <3>2, <4>2, <4>3 DEF NothingLeft, Alone, Fetched
    <3> QED BY <2>4, <3>3, <3>4 DEF GoesBy
  <2> QED BY <2>1, <2>2, <2>3, <2>4
<1>3. CASE UNCHANGED vars
  BY <1>3 DEF vars, world, history, NothingLeft, Alone, Fetched, Passed, Newest, TimesCounted,
              CountIn
<1> QED BY <1>1, <1>2, <1>3 DEF Next, Others

-----------------------------------------------------------------------------
(* The points of a closed season are those of the row. *)

Awarded ==
    ~disturbed =>
        /\ \A r \in Runs :
             /\ run[r].pc = "points" => run[r].award = CalcPoints(row)
             /\ run[r].pc = "close" => (CalcPoints(row) > 0 => points = CalcPoints(row))
        /\ admin = "idle" /\ ~Newest.active => (CalcPoints(row) > 0 => points = CalcPoints(row))

LEMMA PointsUnchanged ==
  ASSUME row' = row, won' = won
  PROVE  CalcPoints(row)' = CalcPoints(row) /\ CompletedTasks(row)' = CompletedTasks(row)
BY DEF CalcPoints, CompletedTasks, TaskTiers, VolumeOnPosition, VolumeForTimeframe,
       TotalTradesOnMarket, TotalVolume, WinLongAndShortTrade, CountIn, TiersReached,
       TimeframeTiers

LEMMA AwardedKept ==
  ASSUME TypeOK, InOrder, OneAtATime, Awarded, [Next]_vars
  PROVE  Awarded'
<1> SUFFICES ASSUME ~disturbed' PROVE Awarded'
  BY DEF Awarded
<1>1. ASSUME NEW r \in Runs, RunStep(r) PROVE Awarded'
  <2>1. /\ ~disturbed /\ UNCHANGED won /\ Quiet(r) /\ (run[r].pc # "idle" => Newest.active)
        /\ \/ Begins(r) \/ Fetches(r) \/ GoesOn(r) \/ Adds(r)
           \/ Stores(r) \/ Gives(r) \/ Closes(r) \/ Stops(r)
    BY <1>1, RunUndisturbed
  <2>2. CASE Begins(r) \/ Fetches(r) \/ Stops(r) \/ Adds(r)
    <3>1. Newest'.active /\ run'[r].pc \notin {"points", "close"}
      BY <2>1, <2>2 DEF Begins, Fetches, Stops, Adds, Newest
    <3> QED BY <2>1, <3>1 DEF Awarded, Quiet
  <2>3. CASE GoesOn(r)
    <3>1. Newest'.active /\ row' = row
      BY <2>1, <2>3 DEF GoesOn, Newest
    <3>2. /\ run'[r].pc = "points" => run'[r].award = CalcPoints(row)
          /\ run'[r].pc = "close" => ~(CalcPoints(row) > 0)
      BY <2>3 DEF GoesOn
    <3> QED BY <2>1, <3>1, <3>2, PointsUnchanged DEF Awarded, Quiet
  <2>4. CASE Stores(r)
    BY <2>1, <2>4 DEF Stores, Awarded, Quiet
  <2>5. CASE Gives(r)
    <3>1. Newest'.active /\ row' = row /\ points' = CalcPoints(row)
      BY <2>1, <2>5 DEF Gives, Newest, Awarded
    <3> QED BY <2>1, <2>5, <3>1, PointsUnchanged DEF Awarded, Quiet, Gives
  <2>6. CASE Closes(r)
    <3>1. UNCHANGED <<row, points>> /\ (CalcPoints(row) > 0 => points = CalcPoints(row))
      BY <2>1, <2>6 DEF Closes, Awarded
    <3> QED BY <2>1, <2>6, <3>1, PointsUnchanged DEF Awarded, Quiet, Closes
  <2> QED BY <2>1, <2>2, <2>3, <2>4, <2>5, <2>6
<1>2. CASE Others
  <2>1. ~disturbed /\ UNCHANGED <<run, won>> /\ (Resets \/ Inserts \/ GoesBy)
    BY <1>2, OthersUndisturbed
  <2>2. CASE Resets
    BY <2>1, <2>2 DEF Resets, Running, Awarded
  <2>3. CASE Inserts
    BY <2>1, <2>3 DEF Inserts, Running, Awarded
  <2>4. CASE GoesBy
    BY <2>1, <2>4, PointsUnchanged DEF GoesBy, Newest, Awarded
  <2> QED BY <2>1, <2>2, <2>3, <2>4
<1>3. CASE UNCHANGED vars
  BY <1>3, PointsUnchanged DEF vars, world, history, Awarded, Newest
<1> QED BY <1>1, <1>2, <1>3 DEF Next, Others

-----------------------------------------------------------------------------
(* The counters carried agree with the history. *)

\* A task stays at its last tier while what it counts grows.
LEMMA TierStays ==
  ASSUME NEW m \in Nat, NEW n \in Nat, m <= n, TiersReached(m) = 3
  PROVE  TiersReached(n) = 3
<1> DEFINE low == {k \in 1..3 : Criteria[k] <= m}
           high == {k \in 1..3 : Criteria[k] <= n}
<1>1. \A k \in 1..3 : Criteria[k] \in Nat
  BY PointAssumption
<1>2. low \in SUBSET high
  <2>1. \A k \in low : Criteria[k] <= n
    BY <1>1
  <2> QED BY <2>1
<1>3. high \in SUBSET (1..3)
  OBVIOUS
<1>4. TiersReached(m) = Cardinality(low) /\ TiersReached(n) = Cardinality(high)
  BY DEF TiersReached
<1> HIDE DEF low, high
<1>5. IsFiniteSet(1..3) /\ Cardinality(1..3) = 3
  <2> DEFINE k == 3
  <2>1. 1 \in Int /\ k \in Int /\ ~(1 > k) /\ k - 1 + 1 = 3
    OBVIOUS
  <2> HIDE DEF k
  <2>2. IsFiniteSet(1..k) /\ Cardinality(1..k) = k - 1 + 1
    BY <2>1, FS_Interval
  <2> QED BY <2>1, <2>2 DEF k
<1>6. IsFiniteSet(high) /\ Cardinality(high) <= 3
  BY <1>3, <1>5, FS_Subset
<1>7. Cardinality(low) <= Cardinality(high)
  BY <1>2, <1>6, FS_Subset
<1>8. Cardinality(high) \in Nat
  BY <1>6, FS_CardinalityType
<1> QED BY <1>4, <1>6, <1>7, <1>8

LEMMA TierOf ==
  ASSUME NEW p
  PROVE  /\ TaskTiers(p)[1] = TiersReached(p.play.longest)
         /\ TaskTiers(p)[2] = TiersReached(p.win.longest)
         /\ TaskTiers(p)[3] = TiersReached(VolumeOnPosition(p.bets, "Bull"))
         /\ TaskTiers(p)[4] = TiersReached(VolumeOnPosition(p.bets, "Bear"))
         /\ TaskTiers(p)[5] = TimeframeTiers(p.timeframes)
         /\ TaskTiers(p)[6] = TiersReached(VolumeForTimeframe(p.bets, 0))
         /\ TaskTiers(p)[7] = TiersReached(VolumeForTimeframe(p.bets, 3))
         /\ TaskTiers(p)[8] = TiersReached(VolumeForTimeframe(p.bets, 1))
         /\ TaskTiers(p)[9] = TiersReached(TotalTradesOnMarket(p.bets, "BTCUSD"))
         /\ TaskTiers(p)[10] = TiersReached(TotalTradesOnMarket(p.bets, "ETHUSD"))
         /\ TaskTiers(p)[11] = TiersReached(TotalVolume(p.bets))
         /\ TaskTiers(p)[12] = TiersReached(WinLongAndShortTrade(p.bets))
         /\ TaskTiers(p)[13] = TiersReached(p.completed)
BY DEF TaskTiers

LEMMA CountGrows ==
  ASSUME NEW S, NEW s \in Seq(S), NEW t \in Seq(S), NEW counted
  PROVE  /\ CountIn(s, counted) \in Nat /\ CountIn(s \o t, counted) \in Nat
         /\ CountIn(s, counted) <= CountIn(s \o t, counted)
<1>1. CountIn(s, counted) \in Nat
  BY CountTyped
<1>2. CountIn(t, counted) \in Nat
  BY CountTyped
<1>3. CountIn(s \o t, counted) = CountIn(s, counted) + CountIn(t, counted)
  BY CountAdd
<1> QED BY <1>1, <1>2, <1>3

LEMMA WonBothGrows ==
  ASSUME NEW s \in Seq(Bets), NEW t \in Seq(Bets)
  PROVE  /\ WinLongAndShortTrade(s) \in Nat /\ WinLongAndShortTrade(s \o t) \in Nat
         /\ WinLongAndShortTrade(s) <= WinLongAndShortTrade(s \o t)
<1> DEFINE both == {"Bull", "Bear"}
           wins(p) == {b \in Bets : won[b] /\ Position[b] = p}
           low == {CountIn(s, wins(p)) : p \in both}
           high == {CountIn(s \o t, wins(p)) : p \in both}
<1>1. s \o t \in Seq(Bets)
  OBVIOUS
<1>2. \A p \in both : /\ CountIn(s, wins(p)) \in Nat /\ CountIn(s \o t, wins(p)) \in Nat
                      /\ CountIn(s, wins(p)) <= CountIn(s \o t, wins(p))
  <2> SUFFICES ASSUME NEW p \in both
               PROVE  /\ CountIn(s, wins(p)) \in Nat /\ CountIn(s \o t, wins(p)) \in Nat
                      /\ CountIn(s, wins(p)) <= CountIn(s \o t, wins(p))
    OBVIOUS
  <2> HIDE DEF wins
  <2> QED BY CountGrows
<1>3. low \in SUBSET Nat /\ low # {} /\ high \in SUBSET Nat /\ high # {}
  BY <1>2
<1>4. Min(low) \in low /\ (\A x \in low : Min(low) <= x) /\ Min(high) \in high
  <2> HIDE DEF low, high
  <2> QED BY <1>3, MinIn
<1>5. WinLongAndShortTrade(s) = Min(low) /\ WinLongAndShortTrade(s \o t) = Min(high)
  BY DEF WinLongAndShortTrade
<1>6. PICK p \in both : Min(high) = CountIn(s \o t, wins(p))
  BY <1>4
<1>7. Min(low) <= CountIn(s, wins(p)) /\ CountIn(s, wins(p)) <= Min(high)
  BY <1>2, <1>4, <1>6
<1>8. Min(low) \in Nat /\ Min(high) \in Nat /\ CountIn(s, wins(p)) \in Nat
  BY <1>2, <1>3, <1>4
<1> HIDE DEF low, high, wins
<1>9. Min(low) <= Min(high)
  BY <1>7, <1>8
<1> QED BY <1>5, <1>8, <1>9

LEMMA RowGrows ==
  ASSUME TypeOK, NEW old \in Progress, NEW new \in Progress, NEW batch \in Seq(Bets),
         new.bets = old.bets \o batch,
         old.play.longest <= new.play.longest, old.win.longest <= new.win.longest,
         old.timeframes \subseteq new.timeframes, old.completed <= new.completed
  PROVE  CompletedTasks(old) <= CompletedTasks(new)
<1>1. /\ old.bets \in Seq(Bets) /\ old.play.longest \in Nat /\ new.play.longest \in Nat
      /\ old.win.longest \in Nat /\ new.win.longest \in Nat
      /\ old.completed \in Nat /\ new.completed \in Nat
  <2>1. /\ old.bets \in Seq(Bets) /\ old.play.longest \in Nat /\ old.win.longest \in Nat
        /\ old.completed \in 0..13
    BY DEF Progress
  <2>2. new.play.longest \in Nat /\ new.win.longest \in Nat /\ new.completed \in 0..13
    BY DEF Progress
  <2>3. \A n \in 0..13 : n \in Nat
    OBVIOUS
  <2> QED BY <2>1, <2>2, <2>3, Zenon
<1>2. ASSUME NEW counted
      PROVE  /\ CountIn(old.bets, counted) \in Nat /\ CountIn(new.bets, counted) \in Nat
             /\ CountIn(old.bets, counted) <= CountIn(new.bets, counted)
  <2> DEFINE bets == old.bets
  <2>1. bets \in Seq(Bets)
    BY <1>1
  <2> HIDE DEF bets
  <2>2. /\ CountIn(bets, counted) \in Nat /\ CountIn(bets \o batch, counted) \in Nat
        /\ CountIn(bets, counted) <= CountIn(bets \o batch, counted)
    BY <2>1, CountGrows
  <2> QED BY <2>2 DEF bets
<1>3. ASSUME NEW counted, TiersReached(CountIn(old.bets, counted)) = 3
      PROVE  TiersReached(CountIn(new.bets, counted)) = 3
  BY <1>2, <1>3, TierStays
<1>4. /\ TaskTiers(old)[1] = 3 => TaskTiers(new)[1] = 3
      /\ TaskTiers(old)[2] = 3 => TaskTiers(new)[2] = 3
      /\ TaskTiers(old)[13] = 3 => TaskTiers(new)[13] = 3
  <2>1. ASSUME NEW m \in Nat, NEW n \in Nat, m <= n
        PROVE  TiersReached(m) = 3 => TiersReached(n) = 3
    BY <2>1, TierStays
  <2>2. /\ TiersReached(old.play.longest) = 3 => TiersReached(new.play.longest) = 3
        /\ TiersReached(old.win.longest) = 3 => TiersReached(new.win.longest) = 3
        /\ TiersReached(old.completed) = 3 => TiersReached(new.completed) = 3
    BY <1>1, <2>1
  <2> QED BY <2>2, TierOf
<1>5. /\ TaskTiers(old)[3] = 3 => TaskTiers(new)[3] = 3
      /\ TaskTiers(old)[4] = 3 => TaskTiers(new)[4] = 3
  BY <1>3, TierOf DEF VolumeOnPosition
<1>6. TaskTiers(old)[5] = 3 => TaskTiers(new)[5] = 3
  <2>1. TimeframeTiers(old.timeframes) = 3 => TimeframeTiers(new.timeframes) = 3
    BY DEF TimeframeTiers
  <2> QED BY <2>1, TierOf
<1>7. /\ TaskTiers(old)[6] = 3 => TaskTiers(new)[6] = 3
      /\ TaskTiers(old)[7] = 3 => TaskTiers(new)[7] = 3
      /\ TaskTiers(old)[8] = 3 => TaskTiers(new)[8] = 3
  BY <1>3, TierOf DEF VolumeForTimeframe
<1>8. /\ TaskTiers(old)[9] = 3 => TaskTiers(new)[9] = 3
      /\ TaskTiers(old)[10] = 3 => TaskTiers(new)[10] = 3
  BY <1>3, TierOf DEF TotalTradesOnMarket
<1>9. TaskTiers(old)[11] = 3 => TaskTiers(new)[11] = 3
  <2>1. TotalVolume(old.bets) \in Nat /\ TotalVolume(new.bets) \in Nat
          /\ TotalVolume(old.bets) <= TotalVolume(new.bets)
    <3> DEFINE bets == old.bets
    <3>1. bets \in Seq(Bets)
      BY <1>1
    <3> HIDE DEF bets
    <3>2. Len(bets) \in Nat /\ Len(bets \o batch) = Len(bets) + Len(batch) /\ Len(batch) \in Nat
      BY <3>1
    <3> QED BY <3>2 DEF TotalVolume, bets
  <2> QED BY <2>1, TierStays, TierOf
<1>10. TaskTiers(old)[12] = 3 => TaskTiers(new)[12] = 3
  <2>1. /\ WinLongAndShortTrade(old.bets) \in Nat /\ WinLongAndShortTrade(new.bets) \in Nat
        /\ WinLongAndShortTrade(old.bets) <= WinLongAndShortTrade(new.bets)
    BY <1>1, WonBothGrows
  <2> QED BY <2>1, TierStays, TierOf
<1> DEFINE low == {i \in 1..13 : TaskTiers(old)[i] = 3}
           high == {i \in 1..13 : TaskTiers(new)[i] = 3}
<1>11. CompletedTasks(old) = Cardinality(low) /\ CompletedTasks(new) = Cardinality(high)
  BY Tiers DEF CompletedTasks
<1>12. low \subseteq high
  <2>1. ASSUME NEW i \in 1..13, TaskTiers(old)[i] = 3 PROVE TaskTiers(new)[i] = 3
    <3> DEFINE is(j) == TaskTiers(old)[j] = 3
               stays(j) == TaskTiers(new)[j] = 3
    <3>1. i \in {1, 2, 3, 4, 5, 6, 7, 8, 9, 10, 11, 12, 13}
      OBVIOUS
    <3>2. \A j \in {1, 2, 3, 4, 5, 6, 7, 8, 9, 10, 11, 12, 13} : is(j) => stays(j)
      BY <1>4, <1>5, <1>6, <1>7, <1>8, <1>9, <1>10, Zenon
    <3> QED BY <2>1, <3>1, <3>2
  <2> QED BY <2>1
<1>13. IsFiniteSet(high)
  <2>1. high \in SUBSET (1..13)
    OBVIOUS
  <2>2. IsFiniteSet(1..13)
    <3>1. \A n_ \in Nat : IsFiniteSet(1..n_)
      BY FS_Interval
    <3>2. 13 \in Nat
      OBVIOUS
    <3> QED BY <3>1, <3>2, Zenon
  <2> HIDE DEF high
  <2> QED BY <2>1, <2>2, FS_Subset
<1> HIDE DEF low, high
<1>14. Cardinality(low) <= Cardinality(high)
  BY <1>12, <1>13, FS_Subset
<1> QED BY <1>11, <1>14

\* The counters of a row are those of its bets; the playing streak while these
\* are in order.
Agrees(p) ==
    /\ Sorted(p.bets) => PlaysOver(p.play, Played(PeriodsOf(p.bets)))
    /\ WinsOver(p.win, WonAt(WonOf(p.bets)), Len(p.bets))
    /\ p.timeframes \subseteq {Timeframe[p.bets[i]] : i \in DOMAIN p.bets}
    /\ p.completed <= CompletedTasks(p)

HistoryAgrees == ~disturbed => Agrees(row)

LEMMA NoRowAgrees ==
  ASSUME TypeOK
  PROVE  Agrees(NoRow)
<1>1. /\ NoRow.bets = <<>> /\ NoRow.play = NeverPlayed /\ NoRow.win = NeverWon
      /\ NoRow.timeframes = {} /\ NoRow.completed = 0
  BY DEF NoRow
<1>2. PeriodsOf(<<>>) = <<>> /\ WonOf(<<>>) = <<>>
  BY DEF PeriodsOf, WonOf
<1>3. PlaysOver(NeverPlayed, {}) /\ Played(<<>>) = {}
  BY DEF PlaysOver, Played, NeverPlayed, PlayCounters
<1>4. WinsOver(NeverWon, {}, 0) /\ WonAt(<<>>) = {} /\ Len(<<>>) = 0
  BY DEF WinsOver, WonAt, NeverWon, WinCounters
<1>5. 0 <= CompletedTasks(NoRow)
  BY Tiers
<1> QED BY <1>1, <1>2, <1>3, <1>4, <1>5 DEF Agrees

\* handleCompletionist alone, for a user without bets.
LEMMA AgreesCompleted ==
  ASSUME TypeOK, NEW old \in Progress, Agrees(old)
  PROVE  /\ Agrees([old EXCEPT !.completed = CompletedTasks(old)])
         /\ [old EXCEPT !.completed = CompletedTasks(old)] \in Progress
<1> DEFINE completed == CompletedTasks(old)
           new == [old EXCEPT !.completed = completed]
<1>1. completed \in 0..13
  BY Tiers
<1>2. /\ new \in Progress /\ new.bets = old.bets /\ new.play = old.play /\ new.win = old.win
      /\ new.timeframes = old.timeframes /\ new.completed = completed
  BY <1>1 DEF Progress
<1>3. old.bets = old.bets \o <<>>
  <2> DEFINE bets == old.bets
  <2>1. bets \in Seq(Bets)
    BY DEF Progress
  <2> HIDE DEF bets
  <2>2. bets = bets \o <<>>
    BY <2>1
  <2> QED BY <2>2 DEF bets
<1>4. /\ old.completed <= completed /\ old.play.longest \in Nat /\ old.win.longest \in Nat
  BY DEF Agrees, Progress
<1> HIDE DEF new, completed
<1>5. CompletedTasks(old) <= CompletedTasks(new)
  <2>1. /\ <<>> \in Seq(Bets) /\ new.bets = old.bets \o <<>>
        /\ old.play.longest <= new.play.longest /\ old.win.longest <= new.win.longest
    BY <1>2, <1>3, <1>4
  <2> QED BY <1>2, <1>4, <2>1, RowGrows
<1>6. Agrees(new)
  BY <1>2, <1>5 DEF Agrees, completed
<1> QED BY <1>2, <1>6 DEF new, completed

\* The periods and the wins of two lists of bets put together.
LEMMA JoinedHistory ==
  ASSUME TypeOK, NEW s \in Seq(Bets), NEW t \in Seq(Bets)
  PROVE  /\ s \o t \in Seq(Bets) /\ Len(s \o t) = Len(s) + Len(t)
         /\ Played(PeriodsOf(s \o t)) = Played(PeriodsOf(s)) \cup Played(PeriodsOf(t))
         /\ WonAt(WonOf(s \o t)) = WonAt(WonOf(s)) \cup WonAfter(WonOf(t), Len(s))
         /\ {Timeframe[s[i]] : i \in DOMAIN s} \cup {Timeframe[t[i]] : i \in DOMAIN t}
              \subseteq {Timeframe[(s \o t)[i]] : i \in DOMAIN (s \o t)}
<1> DEFINE all == s \o t
           n == Len(s)
<1>1. /\ all \in Seq(Bets) /\ n \in Nat /\ Len(all) = n + Len(t)
      /\ DOMAIN s = 1..n /\ DOMAIN t = 1..Len(t) /\ DOMAIN all = 1..(n + Len(t)) /\ Len(t) \in Nat
      /\ \A i \in DOMAIN s : i \in DOMAIN all /\ all[i] = s[i]
      /\ \A i \in DOMAIN t : n + i \in DOMAIN all /\ all[n + i] = t[i]
  OBVIOUS
<1>2. \A i \in DOMAIN all : \/ i \in DOMAIN s /\ all[i] = s[i]
                            \/ i - n \in DOMAIN t /\ all[i] = t[i - n] /\ i = n + (i - n)
  <2>1. \A i \in DOMAIN all :
          /\ i <= n => i \in DOMAIN s /\ all[i] = s[i]
          /\ i > n => i - n \in DOMAIN t /\ all[i] = t[i - n]
    BY Joined
  <2>2. \A i \in DOMAIN all : i \in Nat
    BY <1>1
  <2> HIDE DEF all, n
  <2> QED BY <1>1, <2>1, <2>2
<1> HIDE DEF all, n
<1>3. \A bets \in {s, t, all} :
        /\ DOMAIN PeriodsOf(bets) = DOMAIN bets /\ DOMAIN WonOf(bets) = DOMAIN bets
        /\ \A i \in DOMAIN bets : /\ PeriodsOf(bets)[i] = endAt[bets[i]] \div Period
                                  /\ WonOf(bets)[i] = won[bets[i]]
  BY DEF PeriodsOf, WonOf
<1>4. Played(PeriodsOf(all)) = Played(PeriodsOf(s)) \cup Played(PeriodsOf(t))
  <2> DEFINE p(b) == endAt[b] \div Period
  <2>1. /\ Played(PeriodsOf(all)) = {p(all[i]) : i \in DOMAIN all}
        /\ Played(PeriodsOf(s)) = {p(s[i]) : i \in DOMAIN s}
        /\ Played(PeriodsOf(t)) = {p(t[i]) : i \in DOMAIN t}
    BY DEF Played, PeriodsOf
  <2> HIDE DEF p
  <2>2. {p(all[i]) : i \in DOMAIN all} \subseteq
          {p(s[i]) : i \in DOMAIN s} \cup {p(t[i]) : i \in DOMAIN t}
    BY <1>2
  <2>3. {p(s[i]) : i \in DOMAIN s} \subseteq {p(all[i]) : i \in DOMAIN all}
    BY <1>1
  <2>4. {p(t[i]) : i \in DOMAIN t} \subseteq {p(all[i]) : i \in DOMAIN all}
    BY <1>1
  <2> QED BY <2>1, <2>2, <2>3, <2>4
<1>5. WonAt(WonOf(all)) = WonAt(WonOf(s)) \cup WonAfter(WonOf(t), n)
  <2>1. /\ WonAt(WonOf(all)) = {i \in DOMAIN all : won[all[i]]}
        /\ WonAt(WonOf(s)) = {i \in DOMAIN s : won[s[i]]}
        /\ WonAfter(WonOf(t), n) = {n + i : i \in {j \in DOMAIN t : won[t[j]]}}
    BY DEF WonAt, WonOf, WonAfter
  <2>2. {i \in DOMAIN all : won[all[i]]} \subseteq
          {i \in DOMAIN s : won[s[i]]} \cup {n + i : i \in {j \in DOMAIN t : won[t[j]]}}
    BY <1>2
  <2>3. {i \in DOMAIN s : won[s[i]]} \subseteq {i \in DOMAIN all : won[all[i]]}
    BY <1>1
  <2>4. {n + i : i \in {j \in DOMAIN t : won[t[j]]}} \subseteq {i \in DOMAIN all : won[all[i]]}
    BY <1>1
  <2> QED BY <2>1, <2>2, <2>3, <2>4
<1>6. {Timeframe[s[i]] : i \in DOMAIN s} \cup {Timeframe[t[i]] : i \in DOMAIN t}
        \subseteq {Timeframe[all[i]] : i \in DOMAIN all}
  BY <1>1
<1> QED BY <1>1, <1>4, <1>5, <1>6 DEF all, n

\* A run keeps the counters those of the history.
LEMMA AgreesOn ==
  ASSUME TypeOK, NEW old \in Progress, Counting(old.play), Agrees(old),
         NEW batch \in Seq(Bets), batch # <<>>, Sorted(batch)
  PROVE  Agrees(Advance(old, CompletedTasks(old), batch))
<1> DEFINE completed == CompletedTasks(old)
           new == Advance(old, completed, batch)
           bets == old.bets
<1>1. completed \in 0..13
  BY Tiers
<1>2. new \in Progress /\ new.bets = bets \o batch
  BY <1>1, Advanced
<1>3. /\ new.play = PlayingStreak(old.play, PeriodsOf(batch))
      /\ new.win = WinStreak(old.win, WonOf(batch))
      /\ new.timeframes = TradeOnEachTimeframe(old.timeframes, batch)
      /\ new.completed = completed
  BY DEF Advance
<1>4. bets \in Seq(Bets) /\ old.play.longest \in Nat /\ old.win \in WinCounters
  BY DEF Progress, WinCounters
<1>5. /\ Sorted(bets) => PlaysOver(old.play, Played(PeriodsOf(bets)))
      /\ WinsOver(old.win, WonAt(WonOf(bets)), Len(bets))
      /\ old.timeframes \subseteq {Timeframe[bets[i]] : i \in DOMAIN bets}
      /\ old.completed <= completed
  BY DEF Agrees
<1>6. /\ Ascending(PeriodsOf(batch)) /\ PeriodsOf(batch) # <<>>
      /\ WonOf(batch) \in Seq(BOOLEAN) /\ WonOf(batch) # <<>> /\ Len(WonOf(batch)) = Len(batch)
  BY PeriodsInOrder, WonTyped
<1>7. ASSUME Sorted(bets \o batch)
      PROVE  /\ Sorted(bets)
             /\ \A i \in DOMAIN bets, j \in DOMAIN batch : endAt[bets[i]] <= endAt[batch[j]]
  <2> DEFINE n == Len(bets)
             all == bets \o batch
  <2>1. /\ n \in Nat /\ \A i \in DOMAIN bets : i \in Nat /\ i <= n
        /\ \A i \in DOMAIN bets : i \in DOMAIN all /\ all[i] = bets[i]
        /\ \A j \in DOMAIN batch : j \in Nat \ {0} /\ n + j \in DOMAIN all /\ all[n + j] = batch[j]
    <3> DEFINE first == bets
    <3>1. first \in Seq(Bets)
      BY <1>4
    <3> HIDE DEF first
    <3>2. /\ Len(first) \in Nat /\ \A i \in DOMAIN first : i \in Nat /\ i <= Len(first)
          /\ \A i \in DOMAIN first : i \in DOMAIN (first \o batch) /\ (first \o batch)[i] = first[i]
          /\ \A j \in DOMAIN batch : /\ j \in Nat \ {0} /\ Len(first) + j \in DOMAIN (first \o batch)
                                     /\ (first \o batch)[Len(first) + j] = batch[j]
      BY <3>1
    <3> QED BY <3>2 DEF first
  <2>2. \A i, j \in DOMAIN all : i <= j => endAt[all[i]] <= endAt[all[j]]
    BY <1>7 DEF Sorted
  <2> HIDE DEF n, all
  <2>3. Sorted(bets)
    BY <2>1, <2>2 DEF Sorted
  <2>4. ASSUME NEW i \in DOMAIN bets, NEW j \in DOMAIN batch
        PROVE  endAt[bets[i]] <= endAt[batch[j]]
    <3>1. i <= n + j
      BY <2>1
    <3> QED BY <2>1, <2>2, <3>1
  <2> QED BY <2>3, <2>4
<1>8. ASSUME Sorted(bets \o batch)
      PROVE  PlaysOver(new.play, Played(PeriodsOf(bets \o batch)))
  <2>1. \A v \in Played(PeriodsOf(bets)) : v <= PeriodsOf(batch)[1]
    <3>1. /\ DOMAIN PeriodsOf(bets) = DOMAIN bets
          /\ \A i \in DOMAIN bets : PeriodsOf(bets)[i] = endAt[bets[i]] \div Period
      BY <1>4, PeriodsInOrder
    <3>2. 1 \in DOMAIN batch /\ PeriodsOf(batch)[1] = endAt[batch[1]] \div Period
      <4>1. 1 \in DOMAIN batch
        OBVIOUS
      <4> QED BY <4>1, PeriodsInOrder
    <3>3. ASSUME NEW i \in DOMAIN bets PROVE PeriodsOf(bets)[i] <= PeriodsOf(batch)[1]
      <4>1. endAt[bets[i]] \in Nat /\ endAt[batch[1]] \in Nat /\ endAt[bets[i]] <= endAt[batch[1]]
        <5>1. bets[i] \in Bets /\ batch[1] \in Bets
          BY <1>4, <3>2
        <5>2. endAt[bets[i]] <= endAt[batch[1]]
          BY <1>7, <1>8, <3>2
        <5> QED BY <5>1, <5>2, Ends
      <4> QED BY <3>1, <3>2, <4>1, Constants, Divided
    <3> QED BY <3>1, <3>3 DEF Played
  <2> DEFINE played == Played(PeriodsOf(bets))
             periods == PeriodsOf(batch)
             play == old.play
  <2>2. PlaysOver(play, played) /\ Ascending(periods) /\ periods # <<>>
          /\ \A v \in played : v <= periods[1]
    BY <1>5, <1>6, <1>7, <1>8, <2>1
  <2> HIDE DEF played, periods, play
  <2>3. PlaysOver(PlayingStreak(play, periods), played \cup Played(periods))
    BY <2>2, PlayGoesOn
  <2>4. Played(PeriodsOf(bets \o batch)) = played \cup Played(periods)
    BY <1>4, JoinedHistory DEF played, periods
  <2> QED BY <1>3, <2>3, <2>4 DEF play, periods
<1>9. WinsOver(new.win, WonAt(WonOf(bets \o batch)), Len(bets \o batch))
  <2> DEFINE wins == WonAt(WonOf(bets))
             n == Len(bets)
             later == WonOf(batch)
             win == old.win
  <2>1. WinsOver(win, wins, n) /\ later \in Seq(BOOLEAN) /\ later # <<>> /\ Len(later) = Len(batch)
    BY <1>5, <1>6
  <2> HIDE DEF wins, n, later, win
  <2>2. WinsOver(WinStreak(win, later), wins \cup WonAfter(later, n), n + Len(later))
    BY <2>1, WinGoesOn
  <2>3. /\ WonAt(WonOf(bets \o batch)) = wins \cup WonAfter(later, n)
        /\ Len(bets \o batch) = n + Len(batch)
    BY <1>4, JoinedHistory DEF wins, n, later
  <2> QED BY <1>3, <2>1, <2>2, <2>3 DEF win, later
<1>10. new.timeframes \subseteq {Timeframe[(bets \o batch)[i]] : i \in DOMAIN (bets \o batch)}
  <2>1. new.timeframes \subseteq old.timeframes \cup {Timeframe[batch[i]] : i \in DOMAIN batch}
    BY <1>3 DEF TradeOnEachTimeframe
  <2>2. {Timeframe[bets[i]] : i \in DOMAIN bets} \cup {Timeframe[batch[i]] : i \in DOMAIN batch}
          \subseteq {Timeframe[(bets \o batch)[i]] : i \in DOMAIN (bets \o batch)}
    BY <1>4, JoinedHistory
  <2> QED BY <1>5, <2>1, <2>2
<1>11. CompletedTasks(old) <= CompletedTasks(new)
  <2>1. old.play.longest <= new.play.longest
    BY <1>3, <1>6, PlayTyped
  <2>2. old.win.longest <= new.win.longest
    BY <1>3, <1>4, <1>6, WinTyped
  <2>3. old.timeframes \subseteq new.timeframes
    BY <1>3 DEF TradeOnEachTimeframe
  <2>4. old.completed <= new.completed
    BY <1>3, <1>5
  <2> HIDE DEF new
  <2> QED BY <1>2, <2>1, <2>2, <2>3, <2>4, RowGrows
<1> QED BY <1>2, <1>3, <1>8, <1>9, <1>10, <1>11 DEF Agrees

LEMMA HistoryKept ==
  ASSUME TypeOK, InOrder, OneAtATime, HistoryAgrees, [Next]_vars
  PROVE  HistoryAgrees'
<1> SUFFICES ASSUME ~disturbed' PROVE Agrees(row)'
  BY DEF HistoryAgrees
<1>1. ASSUME NEW p \in Progress, row' = p, Agrees(p), UNCHANGED <<endAt, won>> PROVE Agrees(row)'
  <2>1. endAt' = endAt /\ won' = won
    BY <1>1
  <2>2. Sorted(row.bets)' = Sorted(p.bets)
    BY <1>1, <2>1 DEF Sorted
  <2>3. (Sorted(row.bets) => PlaysOver(row.play, Played(PeriodsOf(row.bets))))'
    BY <1>1, <2>1, <2>2 DEF Agrees, PeriodsOf
  <2>4. WinsOver(row.win, WonAt(WonOf(row.bets)), Len(row.bets))'
    BY <1>1, <2>1 DEF Agrees, WonOf
  <2>5. (row.timeframes \subseteq {Timeframe[row.bets[i]] : i \in DOMAIN row.bets})'
    BY <1>1 DEF Agrees
  <2>6. TaskTiers(row)' = TaskTiers(p)
    BY <1>1, <2>1 DEF TaskTiers, VolumeOnPosition, VolumeForTimeframe, TotalTradesOnMarket,
         TotalVolume, WinLongAndShortTrade, CountIn, TiersReached, TimeframeTiers
  <2>7. (row.completed <= CompletedTasks(row))'
    BY <1>1, <2>6 DEF Agrees, CompletedTasks
  <2> QED BY <2>3, <2>4, <2>5, <2>7 DEF Agrees
<1>2. ASSUME NEW r \in Runs, RunStep(r) PROVE Agrees(row)'
  <2>1. /\ ~disturbed /\ UNCHANGED <<endAt, won>> /\ Quiet(r)
        /\ \/ Begins(r) \/ Fetches(r) \/ GoesOn(r) \/ Adds(r)
           \/ Stores(r) \/ Gives(r) \/ Closes(r) \/ Stops(r)
    BY <1>2, RunUndisturbed
  <2>3. Agrees(row) /\ row \in Progress
    BY <2>1 DEF HistoryAgrees, TypeOK
  <2>4. CASE row' = row
    BY <1>1, <2>1, <2>3, <2>4
  <2>5. CASE Adds(r) /\ run[r].batch = <<>>
    <3>1. row' = [row EXCEPT !.completed = CompletedTasks(row)]
      BY <2>5 DEF Adds
    <3> QED BY <1>1, <2>1, <2>3, <3>1, AgreesCompleted
  <2>6. CASE Adds(r) /\ run[r].batch # <<>>
    <3> DEFINE batch == run[r].batch
               new == Advance(row, CompletedTasks(row), batch)
    <3>1. row' = new /\ batch # <<>>
      BY <2>6 DEF Adds
    <3>2. batch \in Seq(Bets) /\ BatchInOrder(run[r]) /\ Counting(row.play)
      BY DEF TypeOK, RunStates, InOrder
    <3>3. Sorted(batch)
      BY <3>2, SortedBatch
    <3>4. Agrees(new)
      BY <2>3, <3>1, <3>2, <3>3, AgreesOn
    <3>5. new \in Progress
      BY <2>3, <3>1, <3>2, <3>3, Advanced, Tiers
    <3> HIDE DEF new
    <3> QED BY <1>1, <2>1, <3>1, <3>4, <3>5
  <2> QED BY <2>1, <2>4, <2>5, <2>6 DEF Begins, Fetches, GoesOn, Stores, Gives, Closes, Stops
<1>3. CASE Others
  <2>1. ~disturbed /\ UNCHANGED <<run, endAt, won, torn>> /\ (Resets \/ Inserts \/ GoesBy)
    BY <1>3, OthersUndisturbed
  <2>2. row' = row \/ row' = NoRow
    BY <2>1 DEF Resets, Inserts, GoesBy
  <2>3. Agrees(row) /\ row \in Progress
    BY <2>1 DEF HistoryAgrees, TypeOK
  <2> QED BY <1>1, <2>1, <2>2, <2>3, NoRowAgrees, RowsTyped
<1>4. CASE UNCHANGED vars
  <2>1. UNCHANGED <<row, endAt, won, torn, disturbed>>
    BY <1>4 DEF vars, world, history
  <2>2. Agrees(row) /\ row \in Progress
    BY <2>1 DEF HistoryAgrees, TypeOK
  <2> QED BY <1>1, <2>1, <2>2
<1> QED BY <1>2, <1>3, <1>4 DEF Next, Others

-----------------------------------------------------------------------------
(* The inductive invariant. *)

IInv ==
    /\ TypeOK
    /\ InOrder
    /\ OneAtATime
    /\ FetchedLater
    /\ Counted
    /\ NothingLeft
    /\ Awarded
    /\ HistoryAgrees

LEMMA Start ==
  ASSUME Init
  PROVE  IInv
<1>1. PICK times \in SeasonTimes :
        /\ now = 0 /\ endAt \in EndTimes /\ won \in [Bets -> BOOLEAN] /\ closed = {}
        /\ season = <<NewSeason(times)>> /\ row = NoRow /\ points = 0
        /\ run = [r \in Runs |-> Idle]
        /\ admin = "idle" /\ late = {} /\ torn = 0 /\ disturbed = FALSE
  BY DEF Init
<1>2. 0 \in Times /\ NewSeason(times) \in Seasons
  BY RowsTyped, Constants DEF Times
<1>3. TypeOK
  <2>1. now \in Times /\ row \in Progress /\ points \in Nat /\ torn \in 0..MaxTorn
    BY <1>1, <1>2, RowsTyped, Constants
  <2>2. season \in Seq(Seasons) \ {<<>>}
    <3> DEFINE new == NewSeason(times)
    <3>1. new \in Seasons /\ season = <<new>>
      BY <1>1, <1>2
    <3> HIDE DEF new
    <3> QED BY <3>1
  <2>3. run \in [Runs -> RunStates]
    BY <1>1, RowsTyped
  <2> QED BY <1>1, <2>1, <2>2, <2>3 DEF TypeOK
<1>4. \A r \in Runs : run[r] = Idle /\ run[r].pc = "idle"
  BY <1>1, RowsTyped
<1>5. row.bets = <<>> /\ Counting(row.play)
  BY <1>1, RowsTyped
<1>6. InOrder
  BY <1>1, <1>4, <1>5, RowsTyped, FS_EmptySet DEF InOrder
<1>7. Running = {} /\ \A r \in Runs : ~Fetched(r)
  BY <1>4 DEF Running, Fetched
<1>8. OneAtATime
  BY <1>1, <1>7 DEF OneAtATime
<1>9. FetchedLater
  <2>1. Newest.last = NoTime /\ Newest.start \in Nat
    BY <1>1, <1>3, NewestTyped DEF Newest, NewSeason
  <2> QED BY <1>7, <2>1 DEF FetchedLater, Passed
<1>10. Counted
  <2>1. \A b \in Bets : TimesCounted(b) = 0
    <3>1. <<>> \in Seq(Bets)
      OBVIOUS
    <3>2. \A b \in Bets : CountIn(<<>>, {b}) = 0
      BY <3>1, CountTyped, Zenon
    <3> QED BY <1>5, <3>2 DEF TimesCounted
  <2>2. \A b \in Bets : Earlier(b) \in Nat
    BY <1>3, EarlierTyped
  <2> QED BY <1>1, <2>1, <2>2 DEF Counted, Before
<1>11. NothingLeft
  BY <1>1 DEF NothingLeft
<1>12. Awarded
  <2>1. Newest.active
    BY <1>1 DEF Newest, NewSeason
  <2> QED BY <1>4, <2>1 DEF Awarded
<1>13. HistoryAgrees
  BY <1>1, <1>3, NoRowAgrees DEF HistoryAgrees
<1> QED BY <1>3, <1>6, <1>8, <1>9, <1>10, <1>11, <1>12, <1>13 DEF IInv

LEMMA StepKept ==
  ASSUME IInv, [Next]_vars
  PROVE  IInv'
<1>1. TypeOK /\ InOrder /\ OneAtATime /\ FetchedLater /\ Counted /\ NothingLeft /\ Awarded
        /\ HistoryAgrees
  BY DEF IInv
<1>2. TypeOK' /\ InOrder'
  BY <1>1, TypeKept, InOrderKept
<1>3. OneAtATime'
  BY <1>1, <1>2, OneAtATimeKept
<1>4. FetchedLater'
  BY <1>1, FetchedLaterKept
<1>5. Counted'
  BY <1>1, CountedKept
<1>6. NothingLeft'
  BY <1>1, NothingLeftKept
<1>7. Awarded'
  BY <1>1, AwardedKept
<1>8. HistoryAgrees'
  BY <1>1, HistoryKept
<1> QED BY <1>2, <1>3, <1>4, <1>5, <1>6, <1>7, <1>8 DEF IInv

\* The inductive invariant holds in every state.
THEOREM Invariance == Spec => []IInv
<1>1. Init => IInv
  BY Start
<1>2. IInv /\ [Next]_vars => IInv'
  BY StepKept
<1> QED BY <1>1, <1>2, PTL DEF Spec

\* The tables, the runs and the call under way keep their shapes, and no page,
\* streak or point leaves its range.
THEOREM TypeCorrect == Spec => []TypeOK
<1>1. IInv => TypeOK
  BY DEF IInv
<1> QED BY <1>1, Invariance, PTL

\* Each season, whatever its times, adds a bet it covers once, and once more
\* for each time the progresses were saved and last_updated_time was not
\* (runProcessor, getBetsData, setNewSeason).
THEOREM BetsAreCountedOnce == Spec => []CountedOnce
<1>1. ASSUME IInv PROVE CountedOnce
  <2> SUFFICES ASSUME ~disturbed, NEW b \in Bets
               PROVE  TimesCounted(b)
                        <= torn + Cardinality({s \in DOMAIN season : Covers(s, b)})
    BY DEF CountedOnce
  <2>1. \/ TimesCounted(b) <= torn + Earlier(b)
        \/ CoversNow(b) /\ TimesCounted(b) <= torn + Earlier(b) + 1
    BY <1>1 DEF IInv, Counted, Before, Now
  <2>2. TypeOK /\ torn \in Nat
    BY <1>1, Constants DEF IInv, TypeOK
  <2>3. TimesCounted(b) \in Nat
    <3>1. row.bets \in Seq(Bets)
      BY <2>2 DEF TypeOK, Progress
    <3> QED BY <3>1, CountTyped DEF TimesCounted
  <2>4. /\ Earlier(b) \in Nat
        /\ Cardinality({s \in DOMAIN season : Covers(s, b)})
             = Earlier(b) + (IF CoversNow(b) THEN 1 ELSE 0)
    BY <2>2, EarlierTyped
  <2> DEFINE covering == Cardinality({s \in DOMAIN season : Covers(s, b)})
  <2> HIDE DEF covering
  <2>5. covering = Earlier(b) + (IF CoversNow(b) THEN 1 ELSE 0)
    BY <2>4 DEF covering
  <2>6. TimesCounted(b) <= torn + covering
    BY <2>1, <2>2, <2>3, <2>4, <2>5
  <2> QED BY <2>6 DEF covering
<1> QED BY <1>1, Invariance, PTL

\* A bet closed in time, alone at its end, has been added once the time stored
\* has reached its end (runProcessor, getBetsData).
THEOREM NothingIsSkipped == Spec => []NothingSkipped
<1>1. ASSUME IInv PROVE NothingSkipped
  BY <1>1 DEF IInv, NothingLeft, Alone, NothingSkipped
<1> QED BY <1>1, Invariance, PTL

\* The counters carried from run to run are those of the whole history, the
\* playing streak unless a bet was added after a later one (handlePlayingStreaks, handleWinStreaks, handleTradeOnEachTimeframe,
\* handleCompletionist).
THEOREM CountersAgree == Spec => []CountersOfHistory
<1>1. ASSUME IInv PROVE CountersOfHistory
  <2> SUFFICES ASSUME ~disturbed, row.bets # <<>>
               PROVE  /\ InOrderOfTime(row.bets)
                           => row.play = PlayingStreakOf(PeriodsOf(row.bets))
                      /\ row.win = WinStreakOf(WonOf(row.bets))
                      /\ row.timeframes \subseteq {Timeframe[row.bets[i]] : i \in DOMAIN row.bets}
                      /\ row.completed <= CompletedTasks(row)
    BY DEF CountersOfHistory
  <2>1. TypeOK /\ row.bets \in Seq(Bets)
    <3>1. TypeOK /\ row \in Progress
      BY <1>1 DEF IInv, TypeOK
    <3> QED BY <3>1 DEF Progress
  <2>2. Agrees(row)
    BY <1>1 DEF IInv, HistoryAgrees
  <2>3. ASSUME InOrderOfTime(row.bets) PROVE Sorted(row.bets)
    <3>1. \A i, j \in DOMAIN row.bets : i \in Nat /\ j \in Nat /\ (i <= j => i < j \/ i = j)
      BY <2>1
    <3>2. \A i \in DOMAIN row.bets : endAt[row.bets[i]] \in Nat
      BY <2>1, Ends
    <3> QED BY <2>3, <3>1, <3>2 DEF InOrderOfTime, Sorted
  <2>4. ASSUME Sorted(row.bets) PROVE row.play = PlayingStreakOf(PeriodsOf(row.bets))
    <3>1. Ascending(PeriodsOf(row.bets)) /\ PeriodsOf(row.bets) # <<>>
      BY <2>1, <2>4, PeriodsInOrder
    <3>2. PlaysOver(row.play, Played(PeriodsOf(row.bets)))
      BY <2>2, <2>4 DEF Agrees
    <3> QED BY <3>1, <3>2, PlayedIs
  <2>5. WonOf(row.bets) \in Seq(BOOLEAN) /\ Len(WonOf(row.bets)) = Len(row.bets)
    BY <2>1, WonTyped
  <2>6. WinsOver(row.win, WonAt(WonOf(row.bets)), Len(WonOf(row.bets)))
    BY <2>2, <2>5 DEF Agrees
  <2>7. row.win = WinStreakOf(WonOf(row.bets))
    BY <2>5, <2>6, WonIs
  <2> QED BY <2>2, <2>3, <2>4, <2>7 DEF Agrees
<1> QED BY <1>1, Invariance, PTL

\* Once a season is closed, the user has the points of the progresses as they
\* are (runProcessor, updateUserPoints).
THEOREM AwardsAreFinal == Spec => []AwardsFinal
<1>1. ASSUME IInv PROVE AwardsFinal
  BY <1>1 DEF IInv, Awarded, AwardsFinal
<1> QED BY <1>1, Invariance, PTL

=============================================================================

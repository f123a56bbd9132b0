---------------------------- MODULE AffiliateFees ----------------------------
(***************************************************************************)
(* The affiliate fees (AffiliateService,                                   *)
(* src/affiliate/affiliate.service.ts): a guarded cron fetches the bets of *)
(* the rounds that ended after the newest updatedAt of the affiliate and   *)
(* affiliate_fee tables, adds their amounts to the volumes of the referees *)
(* who made them and pays a share to those who referred them.  Nothing     *)
(* else remembers how far it got: a run that stops half way, and a user    *)
(* who registers, move that time too.                                      *)
(*                                                                         *)
(* Abstracted: an amount is 1, and a volume or a fee is the sequence of    *)
(* the bets added to it; the percentage paid (by tier, full for a month    *)
(* after a promotion, or agreed explicitly) scales fees and decides        *)
(* nothing, and is left out, as are signatures, which are never forged.    *)
(* Fewer than 1000 referees bet between two runs.  Times are seconds.      *)
(***************************************************************************)
EXTENDS Naturals, FiniteSets, Sequences, SequencesExt

CONSTANTS
    Bets,         \* the bets, as numbers, by which the subgraph orders equal ends
    Referees,     \* users who were referred, and bet
    Affiliates,   \* users who referred them
    AffiliateOf,  \* who referred whom
    Bettor,       \* who made a bet
    PageSize,     \* first:1000
    MaxErrors,    \* errorCount > 10 ends the fetching
    WeekAmount,   \* QUALIFIED_REFEREE_AMOUNT_WEEK
    Eligible,     \* eligible_referee of the tiers above Bronze
    MaxTime,      \* bound: the clock stops there
    NoRow         \* no row in the table

ASSUME AffiliateAssumption ==
    /\ Bets \subseteq Nat
    /\ IsFiniteSet(Referees)
    /\ IsFiniteSet(Affiliates)
    /\ AffiliateOf \in [Referees -> Affiliates]
    /\ Bettor \in [Bets -> Referees]
    /\ {PageSize, WeekAmount, MaxTime} \subseteq Nat \ {0}
    /\ MaxErrors \in Nat
    /\ Eligible \in Seq(Nat \ {0})

\* the rows of the affiliate and affiliate_fee tables
Times == 0..MaxTime
RefereeRows == [volume : Seq(Bets), qualified : BOOLEAN, createdAt : Times, updatedAt : Times]
FeeRows == [paid : Seq(Bets), tier : 1..(1 + Len(Eligible)), updatedAt : Times]
ASSUME RowAssumption == NoRow \notin RefereeRows \cup FeeRows

VARIABLES
    now,      \* Date.now()
    endAt,    \* round.endAt of a bet
    closed,   \* the bets whose round has a closePrice in the subgraph
    referee,  \* the affiliate table, by user
    fee,      \* the affiliate_fee table, by affiliate
    run,      \* the call of doUpdateAffiliateFee, if isUpdatingAffiliateFee
    shifts,   \* rounds closed ahead of a page being fetched (history)
    lost      \* bets a failure, a registration or their delay let pass (history)

vars == <<now, endAt, closed, referee, fee, run, shifts, lost>>

Bronze == 1
Idle == [pc |-> "idle", last |-> 0, latest |-> 0, skip |-> 0, errors |-> 0, batch |-> <<>>]

Registered == {u \in Referees : referee[u] # NoRow}
RefereesOf(a) == {u \in Registered : AffiliateOf[u] = a}

\* the elements of S, from the first to the last by the pairs of before
InOrder(S, before) ==
    [k \in 1..Cardinality(S) |->
        CHOOSE x \in S : Cardinality({y \in S : <<y, x>> \in before}) = k]

BetsBy(users, batch) ==
    LET at == InOrder({i \in DOMAIN batch : Bettor[batch[i]] \in users},
                      {p \in (DOMAIN batch) \X (DOMAIN batch) : p[1] <= p[2]})
    IN  [k \in DOMAIN at |-> batch[at[k]]]

\* createdAt and updatedAt of a new row are both its time of creation
NewReferee == [volume |-> <<>>, qualified |-> FALSE, createdAt |-> now, updatedAt |-> now]

\* lastTimestamp: the newest updatedAt of both tables, AFFILIATE_START_TIME at least
LastTimestamp ==
    Max({0} \cup {fee[a].updatedAt : a \in {x \in Affiliates : fee[x] # NoRow}}
            \cup {referee[u].updatedAt : u \in Registered})

-----------------------------------------------------------------------------
(* The cron. *)

StartRun ==
    /\ run.pc = "idle"
    /\ Registered # {}
    /\ run' = [Idle EXCEPT !.pc = "fetch", !.last = LastTimestamp, !.latest = LastTimestamp]
    /\ UNCHANGED <<now, endAt, closed, referee, fee, shifts, lost>>

\* the bets the query of getBetsData selects, and the order it gives them
Selected == {b \in closed : endAt[b] > run.last}
ByEnd ==
    {p \in Bets \X Bets :
        endAt[p[1]] < endAt[p[2]] \/ (endAt[p[1]] = endAt[p[2]] /\ p[1] <= p[2])}

\* the answer to one query of getBetsData
Page ==
    LET sorted == InOrder(Selected, ByEnd)
    IN  SubSeq(sorted, run.skip + 1, Min({run.skip + PageSize, Len(sorted)}))

\* what doUpdateAffiliateFee does when getBetsData is over
Fetched(batch) == IF batch = <<>> THEN "idle" ELSE "volumes"

FetchPage ==
    /\ run.pc = "fetch"
    /\ LET batch == run.batch \o Page
       IN  run' = [run EXCEPT
             !.batch = batch,
             !.latest = IF Page = <<>> THEN @ ELSE endAt[Last(Page)],
             !.skip = @ + PageSize,
             !.pc = IF Len(Page) < PageSize THEN Fetched(batch) ELSE "fetch"]
    /\ UNCHANGED <<now, endAt, closed, referee, fee, shifts, lost>>

\* Mutant: the errors are compared before they are counted.
FetchFailsOnceMore ==
    /\ run.pc = "fetch"
    /\ run' = [run EXCEPT !.errors = @ + 1,
                          !.pc = IF run.errors > MaxErrors THEN Fetched(run.batch) ELSE "fetch"]
    /\ UNCHANGED <<now, endAt, closed, referee, fee, shifts, lost>>

FetchFails ==
    /\ run.pc = "fetch"
    /\ run' = [run EXCEPT !.errors = @ + 1,
                          !.pc = IF run.errors + 1 > MaxErrors THEN Fetched(run.batch) ELSE "fetch"]
    /\ UNCHANGED <<now, endAt, closed, referee, fee, shifts, lost>>

\* Mutant: updatedAt stays as it is.
TradedUndated(row, bets) ==
    [row EXCEPT !.volume = @ \o bets,
                !.qualified = Len(row.volume) + Len(bets) >= WeekAmount]

\* the row of a referee after updateAffiliate; of the two tests for a
\* qualification the one by the week is weaker, as both compare createdAt
\* with itself
Traded(row, bets) ==
    [row EXCEPT !.volume = @ \o bets,
                !.qualified = Len(row.volume) + Len(bets) >= WeekAmount,
                !.updatedAt = run.latest]

\* updateAffiliate: those who are not qualified yet
SaveVolumes ==
    /\ run.pc = "volumes"
    /\ referee' = [u \in Referees |->
         IF u \in Registered /\ ~referee[u].qualified /\ BetsBy({u}, run.batch) # <<>>
         THEN Traded(referee[u], BetsBy({u}, run.batch))
         ELSE referee[u]]
    /\ run' = [run EXCEPT !.pc = "fees"]
    /\ UNCHANGED <<now, endAt, closed, fee, shifts, lost>>

\* an error of that save is caught, and the fees are computed all the same
SaveVolumesFails ==
    /\ run.pc = "volumes"
    /\ run' = [run EXCEPT !.pc = "fees"]
    /\ UNCHANGED <<now, endAt, closed, referee, fee, shifts, lost>>

\* Mutant: all referees are counted.
QualifiedAll(a) == Cardinality(RefereesOf(a))

Qualified(a) == Cardinality({u \in RefereesOf(a) : referee[u].qualified})

\* getTierByReferee
TierByReferee(count) == Max({Bronze} \cup {Bronze + i : i \in {j \in DOMAIN Eligible : Eligible[j] <= count}})

\* Mutant: updatedAt is the time of the save.
PaidNow(a, bets) ==
    [fee[a] EXCEPT !.paid = @ \o bets,
                   !.tier = Max({@, TierByReferee(Qualified(a))}),
                   !.updatedAt = now]

\* The row of an affiliate after updateAffiliateFeeWithBets.  An affiliate
\* without a row gets none: isAffiliateFeeValid of undefined is false.
Paid(a, bets) ==
    [fee[a] EXCEPT !.paid = @ \o bets,
                   !.tier = Max({@, TierByReferee(Qualified(a))}),
                   !.updatedAt = run.latest]

SaveFees ==
    /\ run.pc = "fees"
    /\ fee' = [a \in Affiliates |->
         IF fee[a] # NoRow /\ BetsBy(RefereesOf(a), run.batch) # <<>>
         THEN Paid(a, BetsBy(RefereesOf(a), run.batch))
         ELSE fee[a]]
    /\ run' = Idle
    /\ UNCHANGED <<now, endAt, closed, referee, shifts, lost>>

\* A query or a save fails and the exception is caught at the end, or the
\* process stops and starts again.
RunEnds ==
    /\ run.pc # "idle"
    /\ run' = Idle
    /\ lost' = IF run.pc = "fees" THEN lost \cup ToSet(run.batch) ELSE lost
    /\ UNCHANGED <<now, endAt, closed, referee, fee, shifts>>

-----------------------------------------------------------------------------
(* The world. *)

\* AffiliateService.create; it moves lastTimestamp to the present
Register(u) ==
    /\ referee[u] = NoRow
    /\ referee' = [referee EXCEPT ![u] = NewReferee]
    /\ lost' = lost \cup {b \in Bets : endAt[b] <= now}
    /\ UNCHANGED <<now, endAt, closed, fee, run, shifts>>

\* A round gets its closePrice at its end or later: too late once
\* lastTimestamp or the pages fetched have passed its end, and ahead of the
\* next page, which then begins with a bet that was fetched before.
CloseRound(b) ==
    /\ b \notin closed
    /\ endAt[b] <= now
    /\ closed' = closed \cup {b}
    /\ LET fetched == run.pc # "idle" /\ endAt[b] <= run.latest
       IN  /\ lost' = IF endAt[b] <= LastTimestamp \/ fetched THEN lost \cup {b} ELSE lost
           /\ shifts' = IF run.pc = "fetch" /\ run.skip > 0 /\ fetched THEN shifts + 1 ELSE shifts
    /\ UNCHANGED <<now, endAt, referee, fee, run>>

Tick ==
    /\ now < MaxTime
    /\ now' = now + 1
    /\ UNCHANGED <<endAt, closed, referee, fee, run, shifts, lost>>

-----------------------------------------------------------------------------

Init ==
    /\ now = 0
    /\ endAt \in [Bets -> 1..MaxTime]
    /\ closed = {}
    /\ referee = [u \in Referees |-> NoRow]
    /\ fee \in [Affiliates -> {NoRow, [paid |-> <<>>, tier |-> Bronze, updatedAt |-> 0]}]
    /\ run = Idle
    /\ shifts = 0
    /\ lost = {}

Next ==
    \/ StartRun
    \/ FetchPage
    \/ FetchFails
    \/ SaveVolumes
    \/ SaveVolumesFails
    \/ SaveFees
    \/ RunEnds
    \/ \E u \in Referees : Register(u)
    \/ \E b \in Bets : CloseRound(b)
    \/ Tick

Spec == Init /\ [][Next]_vars

-----------------------------------------------------------------------------
(* Properties *)

RunStates ==
    [pc : {"idle", "fetch", "volumes", "fees"}, last : Times, latest : Times, skip : Nat,
     errors : 0..(MaxErrors + 1), batch : Seq(Bets)]

\* The tables and the call keep their shapes.
TypeOK ==
    /\ now \in Times
    /\ endAt \in [Bets -> 1..MaxTime]
    /\ closed \subseteq Bets
    /\ referee \in [Referees -> RefereeRows \cup {NoRow}]
    /\ fee \in [Affiliates -> FeeRows \cup {NoRow}]
    /\ run \in RunStates
    /\ shifts \in Nat
    /\ lost \subseteq Bets

TimesIn(b, s) == Cardinality({i \in DOMAIN s : s[i] = b})

\* No failure or crash between the two saves, and no choice of when runs
\* start, pays a bet twice or adds it twice to the volume of its referee; only
\* a round closed while pages are being fetched (the pages go by skip) may
\* bring one bet twice (getBetsData, updateAffiliate,
\* updateAffiliateFeeWithBets, doUpdateAffiliateFee).
CreditedOnce ==
    \A b \in Bets :
        /\ \A u \in Registered : TimesIn(b, referee[u].volume) <= 1 + shifts
        /\ \A a \in Affiliates : fee[a] # NoRow => TimesIn(b, fee[a].paid) <= 1 + shifts

\* What lastTimestamp has passed is paid: a bet of a referee who had registered
\* before it ended and whose affiliate has a row is in the fee, unless the fees
\* of its run are still to be saved or failed, somebody registered after its
\* end, it was closed late, or it shares its end with another (the same
\* functions).
PassedIsPaid ==
    \A b \in closed \ lost :
        LET a == AffiliateOf[Bettor[b]]
        IN  /\ Bettor[b] \in Registered
            /\ referee[Bettor[b]].createdAt < endAt[b]
            /\ fee[a] # NoRow
            /\ endAt[b] <= LastTimestamp
            /\ ~(run.pc = "fees" /\ Contains(run.batch, b))
            /\ \A c \in Bets \ {b} : endAt[c] # endAt[b]
            => Contains(fee[a].paid, b)

\* A tier is earned by referees who are qualified, and they are by the bets
\* counted: across the two saves a tier is never ahead of them
\* (getTierByReferee, updateAffiliate).
TierEarned ==
    \A a \in Affiliates : fee[a] # NoRow =>
        fee[a].tier <=
            TierByReferee(Cardinality({u \in RefereesOf(a) : Len(referee[u].volume) >= WeekAmount}))

=============================================================================

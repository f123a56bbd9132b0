---------------------------- MODULE Registration ----------------------------
(***************************************************************************)
(* Users, their referral ids and who referred them: UserService            *)
(* (src/user/user.service.ts) behind the endpoints register and            *)
(* generate-referral, AffiliateService.create                              *)
(* (src/affiliate/affiliate.service.ts), the upload of a file of users     *)
(* (AffiliateCSVService, src/affiliate/csv.service.ts) and the point       *)
(* processor, which saves users it has read before (src/point).            *)
(*                                                                         *)
(* Every handler reads, awaits and saves; nothing locks a row between.  An *)
(* action is what runs between two awaits.  The user table has an id of    *)
(* its own and no unique address; a referral id is unique (an index); the  *)
(* affiliate table has the user as its key, so that a save replaces.       *)
(*                                                                         *)
(* Abstracted: an address is a model value, valid and in lower case; of    *)
(* what a client may send with a registration, the referral code, an id    *)
(* and a referral id are kept; points and dates are left out.              *)
(***************************************************************************)
EXTENDS Naturals, FiniteSets, Functions, Sequences, SequencesExt

CONSTANTS
    Addresses,
    ReferralIds,
    SentIds,     \* the referral ids a client may send with a registration
    Calls,       \* bound: requests served at a time
    Known,       \* users there are in the beginning, each with a referral id
    Files,       \* the files an administrator may upload, as sequences of rows
    ChunkSize,   \* 1000 users, or affiliates, are saved at a time
    MaxTimes,    \* referral ids tried: 3
    None         \* null

ASSUME RegistrationAssumption ==
    /\ IsFiniteSet(Addresses)
    /\ None \notin Addresses \cup ReferralIds
    /\ SentIds \subseteq ReferralIds
    /\ Known \in Seq([address : Addresses, referralId : ReferralIds])
    /\ \A i, j \in DOMAIN Known : Known[i].address = Known[j].address => i = j
    /\ \A i, j \in DOMAIN Known : Known[i].referralId = Known[j].referralId => i = j
    /\ \A file \in Files : file \in Seq([address : Addresses,
                                         refCode : ReferralIds \cup {None},
                                         refId : ReferralIds \cup {None}]) \ {<<>>}
    /\ {ChunkSize, MaxTimes} \subseteq Nat \ {0}

VARIABLES
    users,      \* the user table, in order of insertion
    affiliate,  \* the affiliate table: who referred a user
    call,       \* the requests being served
    upload,     \* the file being handled
    award,      \* the users the point processor has read and will save
    raced,      \* addresses two of these worked on at a time (history)
    idOrder,    \* addresses in the order of their first referral ids (history)
    imported,   \* users whose affiliate came from a file (history)
    brought,    \* users who sent their referral ids when they registered (history)
    rewritten   \* users whose row was another's, or became another's (history)

sent == <<brought, rewritten>>
history == <<raced, idOrder, imported, sent>>
vars == <<users, affiliate, call, upload, award, history>>

User == [address : Addresses, referralId : ReferralIds \cup {None}]
NewUser(a, id) == [address |-> a, referralId |-> id]

Idle == [pc |-> "idle", address |-> None, referralCode |-> None, referee |-> None,
         id |-> 0, user |-> None, times |-> 0]
NoBatch == [a \in {} |-> None]
NoUpload == [pc |-> "idle", file |-> <<>>, at |-> 1, batch |-> NoBatch]
NoAward == <<>>

Registered == {users[i].address : i \in DOMAIN users}
IdsHeld == {users[i].referralId : i \in DOMAIN users} \ {None}
\* findByReferralId
Referees(code) == {users[i].address : i \in {j \in DOMAIN users : users[j].referralId = code}}

RowAddresses(file) == {file[i].address : i \in DOMAIN file}

\* the addresses something under way works on
Busy ==
    {call[c].address : c \in {d \in Calls : call[d].pc # "idle"}}
        \cup RowAddresses(upload.file)
        \cup {award[i].address : i \in DOMAIN award}

WorksOn(addresses) == raced' = raced \cup (addresses \cap Busy)

FirstIds(addresses) == idOrder' = idOrder \o SetToSeq(addresses \ ToSet(idOrder))

Holds(a, id) == IF id = None THEN UNCHANGED idOrder ELSE FirstIds({a})

Returns(c) == call' = [call EXCEPT ![c] = Idle]

-----------------------------------------------------------------------------
(* POST user/register: UserService.create. *)

\* Mutant: the user is not looked for.
RegisterAgain(c, a, code) ==
    /\ call[c].pc = "idle"
    /\ WorksOn({a})
    /\ call' = [call EXCEPT ![c] = [Idle EXCEPT !.pc = "save", !.address = a,
                                                !.referralCode = code]]
    /\ UNCHANGED <<users, affiliate, upload, award, idOrder, imported, sent>>

\* the user is returned if there is one; nothing is done then
Register(c, a, code) ==
    /\ call[c].pc = "idle"
    /\ a \notin Registered
    /\ WorksOn({a})
    /\ call' = [call EXCEPT ![c] = [Idle EXCEPT !.pc = "save", !.address = a,
                                                !.referralCode = code]]
    /\ UNCHANGED <<users, affiliate, upload, award, idOrder, imported, sent>>

\* The row saved is a copy of what the client has sent, which may hold a
\* referral id and, if it is that of a row, an id: nothing between depends on
\* them, so that they appear here.  Then the request goes on with its code.
GoesToReferee(c) ==
    call' = [call EXCEPT ![c] = IF @.referralCode = None THEN Idle
                                ELSE [@ EXCEPT !.pc = "referee"]]

\* Mutant: the user gets a referral id at once, as in the line commented out.
InsertUserWithId(c, id) ==
    /\ call[c].pc = "save"
    /\ id = None
    /\ \E new \in ReferralIds \ IdsHeld : users' = Append(users, NewUser(call[c].address, new))
    /\ FirstIds({call[c].address})
    /\ GoesToReferee(c)
    /\ UNCHANGED <<affiliate, upload, award, raced, imported, sent>>

\* a new row; a referral id another has fails the save
InsertUser(c, id) ==
    /\ call[c].pc = "save"
    /\ id \notin IdsHeld
    /\ users' = Append(users, NewUser(call[c].address, id))
    /\ Holds(call[c].address, id)
    /\ brought' = IF id = None THEN brought ELSE brought \cup {call[c].address}
    /\ GoesToReferee(c)
    /\ UNCHANGED <<affiliate, upload, award, raced, imported, rewritten>>

\* the row that has the id sent; a referral id that is not sent stays
OverwriteUser(c, i, id) ==
    /\ call[c].pc = "save"
    /\ id \notin IdsHeld \ {users[i].referralId}
    /\ users' = [users EXCEPT ![i] = NewUser(call[c].address, id)]
    /\ Holds(call[c].address, id)
    /\ rewritten' = rewritten \cup {call[c].address, users[i].address}
    /\ GoesToReferee(c)
    /\ UNCHANGED <<affiliate, upload, award, raced, imported, brought>>

SaveUser(c) ==
    \/ \E id \in SentIds \cup {None} : InsertUser(c, id)
    \/ \E i \in DOMAIN users : \E id \in SentIds \cup {None, users[i].referralId} :
          OverwriteUser(c, i, id)

\* a code of nobody's, or one's own, is let pass
FindReferee(c) ==
    /\ call[c].pc = "referee"
    /\ \/ /\ Referees(call[c].referralCode) \subseteq {call[c].address}
          /\ Returns(c)
       \/ \E referee \in Referees(call[c].referralCode) \ {call[c].address} :
             call' = [call EXCEPT ![c] = [@ EXCEPT !.pc = "affiliate", !.referralCode = None,
                                                   !.referee = referee]]
    /\ UNCHANGED <<users, affiliate, upload, award, history>>

\* Mutant: AffiliateService.create does not look.
FindAffiliateNot(c) ==
    /\ call[c].pc = "affiliate"
    /\ call' = [call EXCEPT ![c] = [@ EXCEPT !.pc = "saveAffiliate"]]
    /\ UNCHANGED <<users, affiliate, upload, award, history>>

\* AffiliateService.create: an affiliate found is returned
FindAffiliate(c) ==
    /\ call[c].pc = "affiliate"
    /\ call' = [call EXCEPT ![c] = IF affiliate[@.address] # None THEN Idle
                                   ELSE [@ EXCEPT !.pc = "saveAffiliate"]]
    /\ UNCHANGED <<users, affiliate, upload, award, history>>

SaveAffiliate(c) ==
    /\ call[c].pc = "saveAffiliate"
    /\ affiliate' = [affiliate EXCEPT ![call[c].address] = call[c].referee]
    /\ Returns(c)
    /\ UNCHANGED <<users, upload, award, history>>

-----------------------------------------------------------------------------
(* POST user/generate-referral: AuthGuard, createReferralIdIfNotExistsAndSave. *)

\* Mutant: who has a referral id gets another.
GenerateReferralAgain(c, i) ==
    /\ call[c].pc = "idle"
    /\ WorksOn({users[i].address})
    /\ call' = [call EXCEPT ![c] = [Idle EXCEPT !.pc = "generate", !.address = users[i].address,
                                                !.id = i, !.user = users[i]]]
    /\ UNCHANGED <<users, affiliate, upload, award, idOrder, imported, sent>>

\* AuthGuard reads the row that is saved later, and the referral id is looked
\* for in it
GenerateReferral(c, i) ==
    /\ call[c].pc = "idle"
    /\ users[i].referralId = None
    /\ WorksOn({users[i].address})
    /\ call' = [call EXCEPT ![c] = [Idle EXCEPT !.pc = "generate", !.address = users[i].address,
                                                !.id = i, !.user = users[i]]]
    /\ UNCHANGED <<users, affiliate, upload, award, idOrder, imported, sent>>

\* The whole row is saved as it was read.
SaveReferralId(c, id) ==
    /\ call[c].pc = "generate"
    /\ id \notin IdsHeld
    /\ users' = [users EXCEPT ![call[c].id] = [call[c].user EXCEPT !.referralId = id]]
    /\ FirstIds({call[c].address})
    /\ Returns(c)
    /\ UNCHANGED <<affiliate, upload, award, raced, imported, sent>>

\* Mutant: times is compared before it is counted.
ReferralIdTakenOnceMore(c) ==
    /\ call[c].pc = "generate"
    /\ call' = [call EXCEPT ![c] = IF @.times = MaxTimes THEN Idle
                                   ELSE [@ EXCEPT !.times = call[c].times + 1]]
    /\ UNCHANGED <<users, affiliate, upload, award, history>>

\* another has the id (or the save fails): a new one is tried
ReferralIdTaken(c) ==
    /\ call[c].pc = "generate"
    /\ call' = [call EXCEPT ![c] = IF @.times + 1 = MaxTimes THEN Idle
                                   ELSE [@ EXCEPT !.times = call[c].times + 1]]
    /\ UNCHANGED <<users, affiliate, upload, award, history>>

\* A query or a save fails, or the process stops: what was saved stays.
CallFails(c) ==
    /\ call[c].pc # "idle"
    /\ Returns(c)
    /\ UNCHANGED <<users, affiliate, upload, award, history>>

-----------------------------------------------------------------------------
(* POST affiliate/upload: handleCSVData, first the users, then who referred *)
(* them.                                                                    *)

file == upload.file

Upload(f) ==
    /\ upload.pc = "idle"
    /\ WorksOn(RowAddresses(f))
    /\ upload' = [NoUpload EXCEPT !.pc = "users", !.file = f]
    /\ UNCHANGED <<users, affiliate, call, award, idOrder, imported, sent>>

\* n is the last row of a chunk of users
IsChunkEnd(n) ==
    LET full(m) == Cardinality(RowAddresses(SubSeq(file, upload.at, m))) >= ChunkSize
    IN  /\ n = Len(file) \/ full(n)
        /\ \A m \in upload.at..(n - 1) : ~full(m)

\* of several rows of an address, the last with a referral id counts
RefId(rows, a) ==
    LET valid == {i \in DOMAIN rows : rows[i].address = a /\ rows[i].refId # None}
        last == {i \in valid : \A j \in valid : j <= i}
    IN  IF last = {} THEN None ELSE rows[CHOOSE i \in last : TRUE].refId

\* after the users up to row n
NextUsers(n) ==
    IF n < Len(file) THEN [upload EXCEPT !.pc = "users", !.at = n + 1, !.batch = NoBatch]
    ELSE [upload EXCEPT !.pc = "affiliates", !.at = 1, !.batch = NoBatch]

\* saveUsers of the CSV service, up to the save: the users there are left out
FindUsers ==
    /\ upload.pc = "users"
    /\ \E n \in upload.at..Len(file) :
         LET rows == SubSeq(file, upload.at, n)
             batch == [a \in RowAddresses(rows) \ Registered |-> RefId(rows, a)]
         IN  /\ IsChunkEnd(n)
             /\ upload' = IF DOMAIN batch = {} THEN NextUsers(n)
                          ELSE [upload EXCEPT !.pc = "saveUsers", !.at = n, !.batch = batch]
    /\ UNCHANGED <<users, affiliate, call, award, history>>

\* one referral id that is taken, or is there twice, fails the whole chunk
SaveUsers ==
    LET batch == upload.batch
        withId == {a \in DOMAIN batch : batch[a] # None}
    IN  /\ upload.pc = "saveUsers"
        /\ \A a \in withId : batch[a] \notin IdsHeld
        /\ \A a, b \in withId : batch[a] = batch[b] => a = b
        /\ users' = users \o SetToSeq({NewUser(a, batch[a]) : a \in DOMAIN batch})
        /\ FirstIds(withId)
        /\ upload' = NextUsers(upload.at)
        /\ UNCHANGED <<affiliate, call, award, raced, imported, sent>>

SaveUsersFails ==
    /\ upload.pc = "saveUsers"
    /\ upload' = NextUsers(upload.at)
    /\ UNCHANGED <<users, affiliate, call, award, history>>

\* after the affiliates up to row upload.at
NextAffiliates ==
    IF upload.at < Len(file)
    THEN [upload EXCEPT !.pc = "affiliates", !.at = @ + 1, !.batch = NoBatch]
    ELSE NoUpload

\* findByReferralId for one row, which is passed over if nobody has its code,
\* its address is in the batch or the query fails; a full batch, or the last,
\* goes to saveAffiliates
FindRefCode ==
    LET row == file[upload.at]
        Go(batch) ==
            upload' = IF batch = NoBatch THEN NextAffiliates
                      ELSE IF Cardinality(DOMAIN batch) >= ChunkSize \/ upload.at = Len(file)
                      THEN [upload EXCEPT !.pc = "findAffiliates", !.batch = batch]
                      ELSE [upload EXCEPT !.at = @ + 1, !.batch = batch]
    IN  /\ upload.pc = "affiliates"
        /\ \/ Go(upload.batch)
           \/ \E referee \in Referees(row.refCode) :
                /\ row.refCode # None
                /\ row.address \notin DOMAIN upload.batch
                /\ Go([a \in DOMAIN upload.batch \cup {row.address} |->
                          IF a = row.address THEN referee ELSE upload.batch[a]])
        /\ UNCHANGED <<users, affiliate, call, award, history>>

FindAffiliates ==
    /\ upload.pc = "findAffiliates"
    /\ LET new == {a \in DOMAIN upload.batch : affiliate[a] = None}
       IN  upload' = IF new = {} THEN NextAffiliates
                     ELSE [upload EXCEPT !.pc = "saveAffiliates", !.batch = Restrict(@, new)]
    /\ UNCHANGED <<users, affiliate, call, award, history>>

SaveAffiliates ==
    /\ upload.pc = "saveAffiliates"
    /\ affiliate' = [a \in Addresses |->
                        IF a \in DOMAIN upload.batch THEN upload.batch[a] ELSE affiliate[a]]
    /\ imported' = imported \cup DOMAIN upload.batch
    /\ upload' = NextAffiliates
    /\ UNCHANGED <<users, call, award, raced, idOrder, sent>>

SaveAffiliatesFails ==
    /\ upload.pc = "saveAffiliates"
    /\ upload' = NextAffiliates
    /\ UNCHANGED <<users, affiliate, call, award, history>>

-----------------------------------------------------------------------------
(* The point processor. *)

\* updateUserPoints, up to saveUsers: the users with points
ReadUsers(winners) ==
    /\ award = NoAward
    /\ WorksOn(winners)
    /\ award' = [i \in {j \in DOMAIN users : users[j].address \in winners} |-> users[i]]
    /\ UNCHANGED <<users, affiliate, call, upload, idOrder, imported, sent>>

\* the users as they were read, but for their points; a referral id that
\* another has by now fails the save
SaveAwards ==
    LET saved == [i \in DOMAIN users |-> IF i \in DOMAIN award THEN award[i] ELSE users[i]]
    IN  /\ award # NoAward
        /\ \A i, j \in DOMAIN users :
              saved[i].referralId = saved[j].referralId /\ saved[i].referralId # None => i = j
        /\ users' = saved
        /\ award' = NoAward
        /\ UNCHANGED <<affiliate, call, upload, history>>

SaveAwardsFails ==
    /\ award # NoAward
    /\ award' = NoAward
    /\ UNCHANGED <<users, affiliate, call, upload, history>>

-----------------------------------------------------------------------------

Init ==
    /\ users = Known
    /\ affiliate = [a \in Addresses |-> None]
    /\ call = [c \in Calls |-> Idle]
    /\ upload = NoUpload
    /\ award = NoAward
    /\ raced = {}
    /\ idOrder = [i \in DOMAIN Known |-> Known[i].address]
    /\ imported = {}
    /\ brought = {}
    /\ rewritten = {}

CallStep(c) ==
    \/ \E a \in Addresses, code \in ReferralIds \cup {None} : Register(c, a, code)
    \/ SaveUser(c)
    \/ FindReferee(c)
    \/ FindAffiliate(c)
    \/ SaveAffiliate(c)
    \/ \E i \in DOMAIN users : GenerateReferral(c, i)
    \/ \E id \in ReferralIds : SaveReferralId(c, id)
    \/ ReferralIdTaken(c)
    \/ CallFails(c)

UploadStep ==
    \/ \E f \in Files : Upload(f)
    \/ FindUsers
    \/ SaveUsers
    \/ SaveUsersFails
    \/ FindRefCode
    \/ FindAffiliates
    \/ SaveAffiliates
    \/ SaveAffiliatesFails

AwardStep ==
    \/ \E winners \in (SUBSET Registered) \ {{}} : ReadUsers(winners)
    \/ SaveAwards
    \/ SaveAwardsFails

Next ==
    \/ \E c \in Calls : CallStep(c)
    \/ UploadStep
    \/ AwardStep

Spec == Init /\ [][Next]_vars

-----------------------------------------------------------------------------
(* Properties *)

Batches == UNION {[S -> Addresses \cup ReferralIds \cup {None}] : S \in SUBSET Addresses}

\* The tables, the requests, the upload and the awards keep their shapes.
TypeOK ==
    /\ users \in Seq(User)
    /\ affiliate \in [Addresses -> Addresses \cup {None}]
    /\ call \in [Calls ->
         [pc : {"idle", "save", "referee", "affiliate", "saveAffiliate", "generate"},
          address : Addresses \cup {None}, referralCode : ReferralIds \cup {None},
          referee : Addresses \cup {None}, id : Nat, user : User \cup {None},
          times : 0..(MaxTimes - 1)]]
    /\ upload \in
         [pc : {"idle", "users", "saveUsers", "affiliates", "findAffiliates", "saveAffiliates"},
          file : Files \cup {<<>>}, at : Nat \ {0}, batch : Batches]
    /\ award \in [DOMAIN award -> User]
    /\ DOMAIN award \subseteq DOMAIN users
    /\ raced \subseteq Addresses
    /\ idOrder \in Seq(Addresses)
    /\ imported \subseteq Addresses
    /\ brought \subseteq Addresses
    /\ rewritten \subseteq Addresses

\* However requests fail and whatever files are uploaded, an address has one
\* user, unless two of its calls ran at a time (create, saveUsers).
OneUser ==
    \A i, j \in DOMAIN users :
        users[i].address = users[j].address /\ users[i].address \notin raced => i = j

\* Who referred a user does not change any more, unless two calls of the user
\* ran at a time: neither a repeated registration nor a file replaces it
\* (create, saveAffiliates).
AffiliateKept ==
    [][\A a \in Addresses \ raced' :
         affiliate[a] # None => affiliate'[a] = affiliate[a]]_vars

\* A referral id that was given out stays the user's, unless two calls of the
\* user ran at a time or somebody registered with the id of a row: no row read
\* before is saved over it (createReferralIdIfNotExistsAndSave, updateUserPoints).
ReferralIdKept ==
    [][\A i \in DOMAIN users : users[i].address \notin raced' \cup rewritten' =>
         (users[i].referralId # None => users'[i] = users[i])]_vars

Rank(a) == {k \in DOMAIN idOrder : idOrder[k] = a}

\* Who referred a user had a referral id before the user had one, unless the
\* user sent one when he registered, the affiliate came from a file, his row was
\* another's or two of his calls ran at a time; so a circle of referrals has such
\* a user in it (create, createReferralIdIfNotExistsAndSave).
ReferrersFirst ==
    \A a \in Addresses \ (raced \cup imported \cup brought \cup rewritten) :
        affiliate[a] # None =>
            /\ Rank(affiliate[a]) # {}
            /\ \A j \in Rank(affiliate[a]), k \in Rank(a) : j < k

=============================================================================

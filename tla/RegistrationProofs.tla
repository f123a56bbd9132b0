------------------------- MODULE RegistrationProofs -------------------------
(***************************************************************************)
(* Proofs of what Registration promises, for any users, referral ids,      *)
(* requests, files and chunk sizes.                                        *)
(*                                                                         *)
(* The argument: whatever two requests, an upload or an award work on at a *)
(* time is in raced (Alone).  So what one of them has read of a user not   *)
(* in raced is still so when it saves: there is no user to be found        *)
(* (StillNew), no affiliate (StillNone), no row but the one read           *)
(* (RowsAlone).  A row may be another's by then, whoever registered with   *)
(* its id; both are in rewritten (Renamed), and of a user who is not, the  *)
(* row is the row read (StillAsRead).                                      *)
(***************************************************************************)
EXTENDS Registration, FiniteSetTheorems, SequenceTheorems, TLAPS

RegisterPcs == {"save", "referee", "affiliate", "saveAffiliate"}
Batched(pc) == IF upload.pc = pc THEN DOMAIN upload.batch ELSE {}

\* An upload u is somewhere in its file, with a batch made of rows of it.
UploadShaped(u) ==
    /\ u.pc # "idle" => u.file # <<>> /\ u.at <= Len(u.file)
    /\ u.pc \in {"idle", "users"} => u.batch = NoBatch
    /\ u.pc = "saveUsers" => \A a \in DOMAIN u.batch : u.batch[a] \in ReferralIds \cup {None}
    /\ u.pc \in {"affiliates", "findAffiliates", "saveAffiliates"} =>
         \A a \in DOMAIN u.batch : u.batch[a] \in Addresses
    /\ DOMAIN u.batch \subseteq RowAddresses(u.file)

\* A request has what its next step uses.
CallShaped(c) ==
    /\ call[c].pc # "idle" => call[c].address \in Addresses
    /\ call[c].pc = "referee" => call[c].referralCode # None
    /\ call[c].pc \in {"affiliate", "saveAffiliate"} => call[c].referee \in Addresses
    /\ call[c].pc = "generate" =>
         /\ call[c].id \in DOMAIN users
         /\ call[c].user \in User
         /\ call[c].user.referralId = None
         /\ call[c].user.address = call[c].address

\* Where the requests and the upload have got to.
Shapes ==
    /\ \A c \in Calls : CallShaped(c)
    /\ UploadShaped(upload)

\* Of two things under way with a user, the user is in raced.
Alone ==
    /\ \A c, d \in Calls :
         c # d /\ call[c].pc # "idle" /\ call[d].pc # "idle"
           /\ call[c].address = call[d].address => call[c].address \in raced
    /\ \A c \in Calls : call[c].pc # "idle" /\ call[c].address \in RowAddresses(upload.file)
                          => call[c].address \in raced
    /\ \A c \in Calls, i \in DOMAIN award :
         call[c].pc # "idle" /\ call[c].address = award[i].address => call[c].address \in raced
    /\ \A i \in DOMAIN award :
         award[i].address \in RowAddresses(upload.file) => award[i].address \in raced

\* A user to be saved is not there.
StillNew ==
    /\ \A c \in Calls :
         call[c].pc = "save" /\ call[c].address \notin raced => call[c].address \notin Registered
    /\ Batched("saveUsers") \cap Registered \subseteq raced

\* An affiliate to be saved is not there.
StillNone ==
    /\ \A c \in Calls : call[c].pc = "saveAffiliate" /\ call[c].address \notin raced
                          => affiliate[call[c].address] = None
    /\ \A a \in Batched("saveAffiliates") \ raced : affiliate[a] = None

\* A user whose row is to be saved has no other row.
RowsAlone ==
    /\ \A c \in Calls, i \in DOMAIN users :
         call[c].pc = "generate" /\ users[i].address = call[c].address
           /\ call[c].address \notin raced => i = call[c].id
    /\ \A i \in DOMAIN award, j \in DOMAIN users :
         users[j].address = award[i].address /\ award[i].address \notin raced => j = i
    /\ \A i, j \in DOMAIN award :
         award[i].address = award[j].address /\ award[i].address \notin raced => i = j

\* A row to be saved that has become another's.
Renamed ==
    /\ \A c \in Calls : call[c].pc = "generate" /\ call[c].address # users[call[c].id].address
         => {call[c].address, users[call[c].id].address} \subseteq rewritten
    /\ \A i \in DOMAIN award : award[i].address # users[i].address
         => {award[i].address, users[i].address} \subseteq rewritten

\* A row to be saved is the row in the table.
StillAsRead ==
    /\ \A c \in Calls : call[c].pc = "generate" /\ call[c].address \notin raced \cup rewritten
                          => call[c].user = users[call[c].id]
    /\ \A i \in DOMAIN award : award[i].address \notin raced \cup rewritten
                               => award[i] = users[i]

\* idOrder holds the users who have, or had, a referral id; none of those who
\* register without one, and each referee.
Ranked ==
    /\ ToSet(idOrder) \subseteq Registered \cup rewritten
    /\ \A i \in DOMAIN users : users[i].referralId # None => users[i].address \in ToSet(idOrder)
    /\ \A i \in DOMAIN award : award[i].referralId # None => award[i].address \in ToSet(idOrder)
    /\ \A c \in Calls : call[c].pc \in {"affiliate", "saveAffiliate"}
                          => call[c].referee \in ToSet(idOrder)
    /\ \A c \in Calls :
         call[c].pc \in RegisterPcs /\ call[c].address \notin raced \cup brought \cup rewritten
           => call[c].address \notin ToSet(idOrder)

IInv ==
    /\ TypeOK
    /\ Shapes
    /\ Alone
    /\ StillNew
    /\ StillNone
    /\ RowsAlone
    /\ Renamed
    /\ StillAsRead
    /\ Ranked
    /\ OneUser
    /\ ReferrersFirst

-----------------------------------------------------------------------------
(* Sequences made of sets *)

\* SetToSeq lists each element of a finite set once.
LEMMA SetToSeqLists ==
    ASSUME NEW S, IsFiniteSet(S)
    PROVE  /\ SetToSeq(S) \in Seq(S)
           /\ ToSet(SetToSeq(S)) = S
           /\ \A i, j \in DOMAIN SetToSeq(S) : SetToSeq(S)[i] = SetToSeq(S)[j] => i = j
<1> DEFINE n == Cardinality(S)
           IsList(f) == f \in [1..n -> S] /\ IsInjective(f)
<1>1. n \in Nat /\ ExistsBijection(1..n, S)
  BY FS_CardinalityType
<1>2. \E f : IsList(f)
  BY <1>1 DEF ExistsBijection, Bijection, Injection
<1>3. IsList(SetToSeq(S))
  <2>1. SetToSeq(S) = CHOOSE f : f \in [1..n -> S] /\ IsInjective(f)
    BY Zenon DEF SetToSeq
  <2> QED BY <1>2, <2>1, Zenon
<1>4. IsFiniteSet(1..n) /\ Cardinality(1..n) = n
  BY <1>1, FS_Interval
<1>5. SetToSeq(S) \in Surjection(1..n, S)
  <2>1. SetToSeq(S) \in Injection(1..n, S)
    BY <1>3 DEF Injection
  <2> QED BY <2>1, <1>4, FS_Injection, Zenon
<1> HIDE DEF n
<1>6. SetToSeq(S) \in Seq(S)
  BY <1>1, <1>3
<1>7. ToSet(SetToSeq(S)) = S
  BY <1>1, <1>3, <1>5 DEF ToSet, Surjection
<1> QED BY <1>3, <1>6, <1>7 DEF IsInjective

\* The set of a concatenation.
LEMMA ToSetConcat ==
    ASSUME NEW S, NEW s \in Seq(S), NEW t \in Seq(S)
    PROVE  ToSet(s \o t) = ToSet(s) \cup ToSet(t)
<1>1. s \o t \in Seq(S) /\ Len(s \o t) = Len(s) + Len(t)
  BY ConcatProperties
<1>2. \A i \in 1..Len(s) : (s \o t)[i] = s[i]
  BY ConcatProperties
<1>3. \A i \in 1..Len(t) : (s \o t)[i + Len(s)] = t[i]
  BY ConcatProperties
<1>4. \A i \in 1..(Len(s) + Len(t)) :
        i \in 1..Len(s) \/ (i - Len(s) \in 1..Len(t) /\ (s \o t)[i] = t[i - Len(s)])
  BY ConcatProperties
<1>5. ToSet(s) \cup ToSet(t) \subseteq ToSet(s \o t)
  <2>1. \A i \in DOMAIN s : i \in DOMAIN (s \o t)
    BY <1>1
  <2>2. \A i \in DOMAIN t : i + Len(s) \in DOMAIN (s \o t)
    BY <1>1
  <2>3. DOMAIN s = 1..Len(s) /\ DOMAIN t = 1..Len(t)
    OBVIOUS
  <2> QED BY <2>1, <2>2, <2>3, <1>2, <1>3 DEF ToSet
<1>6. ToSet(s \o t) \subseteq ToSet(s) \cup ToSet(t)
  BY <1>1, <1>2, <1>4 DEF ToSet
<1> QED BY <1>5, <1>6

\* FirstIds adds those who are new behind the others.
LEMMA FirstIdsAppends ==
    ASSUME RegistrationAssumption, TypeOK, NEW A \in SUBSET Addresses, FirstIds(A)
    PROVE  /\ idOrder' \in Seq(Addresses)
           /\ ToSet(idOrder') = ToSet(idOrder) \cup A
           /\ Len(idOrder) <= Len(idOrder')
           /\ \A k \in DOMAIN idOrder : idOrder'[k] = idOrder[k]
           /\ \A k \in DOMAIN idOrder' \ DOMAIN idOrder : idOrder'[k] \notin ToSet(idOrder)
<1> DEFINE new == A \ ToSet(idOrder)
           s == SetToSeq(new)
<1>1. IsFiniteSet(new)
  BY FS_Subset DEF RegistrationAssumption
<1>2. s \in Seq(new) /\ ToSet(s) = new
  BY <1>1, SetToSeqLists
<1>3. idOrder \in Seq(Addresses) /\ s \in Seq(Addresses)
  BY <1>2, SeqMonotonic DEF TypeOK
<1>4. idOrder' = idOrder \o s
  BY DEF FirstIds
<1> HIDE DEF s
<1>5. /\ idOrder' \in Seq(Addresses)
      /\ Len(idOrder') = Len(idOrder) + Len(s)
      /\ \A k \in 1..(Len(idOrder) + Len(s)) :
            idOrder'[k] = IF k <= Len(idOrder) THEN idOrder[k] ELSE s[k - Len(idOrder)]
  BY <1>3, <1>4, ConcatProperties
<1>6. ToSet(idOrder') = ToSet(idOrder) \cup new
  BY <1>2, <1>3, <1>4, ToSetConcat
<1>7. \A k \in DOMAIN idOrder : idOrder'[k] = idOrder[k]
  BY <1>3, <1>5
<1>8. \A k \in DOMAIN idOrder' \ DOMAIN idOrder : idOrder'[k] \in new
  <2> TAKE k \in DOMAIN idOrder' \ DOMAIN idOrder
  <2>1. k \in 1..(Len(idOrder) + Len(s)) /\ ~(k <= Len(idOrder)) /\ k - Len(idOrder) \in 1..Len(s)
    BY <1>3, <1>5
  <2>2. idOrder'[k] = s[k - Len(idOrder)]
    BY <2>1, <1>5
  <2> HIDE DEF new
  <2> QED BY <1>2, <2>1, <2>2
<1> QED BY <1>3, <1>5, <1>6, <1>7, <1>8

-----------------------------------------------------------------------------
(* What a save changes in the user table *)

\* The rows of a file that was uploaded.
LEMMA FileRows ==
    ASSUME RegistrationAssumption, TypeOK
    PROVE  /\ file \in Seq([address : Addresses, refCode : ReferralIds \cup {None},
                            refId : ReferralIds \cup {None}])
           /\ Len(file) \in Nat /\ DOMAIN file = 1..Len(file)
           /\ RowAddresses(file) \subseteq Addresses
<1>1. file \in Files \cup {<<>>}
  BY DEF TypeOK, file
<1>2. file \in Seq([address : Addresses, refCode : ReferralIds \cup {None},
                    refId : ReferralIds \cup {None}])
  BY <1>1, EmptySeq DEF RegistrationAssumption
<1>3. \A i \in DOMAIN file : file[i].address \in Addresses
  <2> DEFINE Row == [address : Addresses, refCode : ReferralIds \cup {None},
                     refId : ReferralIds \cup {None}]
  <2>1. file \in Seq(Row)
    BY <1>2
  <2>2. \A i \in DOMAIN file : file[i] \in Row
    <3> HIDE DEF Row
    <3> QED BY <2>1, LenProperties, ElementOfSeq
  <2> QED BY <2>2
<1>4. Len(file) \in Nat /\ DOMAIN file = 1..Len(file)
  BY <1>2, LenProperties
<1> QED BY <1>2, <1>3, <1>4 DEF RowAddresses

\* The rows of the user table, and of an award.
LEMMA Rows ==
    ASSUME TypeOK
    PROVE  /\ DOMAIN users = 1..Len(users) /\ Len(users) \in Nat
           /\ \A i \in DOMAIN users : /\ i \in Nat
                                     /\ users[i] \in User
                                     /\ users[i].address \in Addresses
                                     /\ users[i].referralId \in ReferralIds \cup {None}
           /\ DOMAIN award \subseteq DOMAIN users
           /\ \A i \in DOMAIN award : /\ award[i] \in User
                                     /\ award[i].address \in Addresses
<1>1. users \in Seq(User) /\ award \in [DOMAIN award -> User]
  BY DEF TypeOK
<1>2. /\ DOMAIN users = 1..Len(users) /\ Len(users) \in Nat
      /\ \A i \in DOMAIN users : users[i] \in User
      /\ \A i \in DOMAIN award : award[i] \in User
  BY <1>1, LenProperties, ElementOfSeq
<1> QED BY <1>2 DEF User, TypeOK

\* The rows that were there stay, though they may become another's.
Grows ==
    /\ users' \in Seq(User)
    /\ Len(users) <= Len(users')
    /\ DOMAIN users \subseteq DOMAIN users'

\* What a client may send fits a row.
LEMMA SentTyped ==
    ASSUME RegistrationAssumption, TypeOK, Shapes, NEW c \in Calls, call[c].pc = "save",
           NEW id \in ReferralIds \cup {None}
    PROVE  /\ NewUser(call[c].address, id) \in User
           /\ NewUser(call[c].address, id).address = call[c].address
           /\ NewUser(call[c].address, id).referralId = id
           /\ call[c].address \in Addresses
<1>1. call[c].address \in Addresses
  BY DEF Shapes, CallShaped
<1> QED BY <1>1 DEF NewUser, User

\* InsertUser adds a row of the user's.
LEMMA InsertUserChange ==
    ASSUME RegistrationAssumption, TypeOK, Shapes, NEW c \in Calls,
           NEW id \in ReferralIds \cup {None}, InsertUser(c, id)
    PROVE  /\ Grows
           /\ \A i \in DOMAIN users : users'[i] = users[i]
           /\ \A i \in DOMAIN users' \ DOMAIN users :
                /\ i = Len(users) + 1
                /\ users'[i].address = call[c].address /\ users'[i].referralId = id
           /\ Len(users) + 1 \in DOMAIN users' \ DOMAIN users
<1>1. /\ users \in Seq(User) /\ NewUser(call[c].address, id) \in User
      /\ NewUser(call[c].address, id).address = call[c].address
      /\ NewUser(call[c].address, id).referralId = id
  <2>1. users \in Seq(User) /\ call[c].pc = "save"
    BY DEF TypeOK, InsertUser
  <2> QED BY <2>1, SentTyped
<1>2. users' = Append(users, NewUser(call[c].address, id))
  BY DEF InsertUser
<1> DEFINE new == NewUser(call[c].address, id)
<1> HIDE DEF new
<1>3. /\ users' \in Seq(User)
      /\ Len(users') = Len(users) + 1
      /\ \A i \in 1..Len(users) : users'[i] = users[i]
      /\ users'[Len(users) + 1] = new
  BY <1>1, <1>2 DEF new
<1>4. DOMAIN users = 1..Len(users) /\ DOMAIN users' = 1..(Len(users) + 1) /\ Len(users) \in Nat
  BY <1>1, <1>3
<1>5. Grows
  BY <1>3, <1>4 DEF Grows
<1>6. new.address = call[c].address /\ new.referralId = id
  BY <1>1 DEF new
<1> QED BY <1>3, <1>4, <1>5, <1>6

\* OverwriteUser makes a row the user's.
LEMMA OverwriteUserChange ==
    ASSUME RegistrationAssumption, TypeOK, Shapes, NEW c \in Calls,
           NEW k \in DOMAIN users, NEW id \in ReferralIds \cup {None}, OverwriteUser(c, k, id)
    PROVE  /\ Grows
           /\ DOMAIN users' = DOMAIN users
           /\ \A i \in DOMAIN users : i # k => users'[i] = users[i]
           /\ users'[k].address = call[c].address /\ users'[k].referralId = id
           /\ rewritten' = rewritten \cup {call[c].address, users[k].address}
<1>1. /\ users \in Seq(User) /\ NewUser(call[c].address, id) \in User
      /\ NewUser(call[c].address, id).address = call[c].address
      /\ NewUser(call[c].address, id).referralId = id
  <2>1. users \in Seq(User) /\ call[c].pc = "save"
    BY DEF TypeOK, OverwriteUser
  <2> QED BY <2>1, SentTyped
<1>2. /\ users' = [users EXCEPT ![k] = NewUser(call[c].address, id)]
      /\ rewritten' = rewritten \cup {call[c].address, users[k].address}
  BY DEF OverwriteUser
<1> DEFINE new == NewUser(call[c].address, id)
<1> HIDE DEF new
<1>3. users' \in Seq(User) /\ Len(users') = Len(users)
  BY <1>1, <1>2, ExceptSeq DEF new
<1>4. DOMAIN users' = DOMAIN users /\ Len(users) \in Nat
  BY <1>2, Rows
<1>5. Grows
  BY <1>3, <1>4 DEF Grows
<1>6. users'[k].address = call[c].address /\ users'[k].referralId = id
  BY <1>1, <1>2
<1> QED BY <1>2, <1>4, <1>5, <1>6

\* SaveUser is one of the two.
LEMMA SaveUserSaves ==
    ASSUME RegistrationAssumption, TypeOK, NEW c \in Calls, SaveUser(c)
    PROVE  \/ \E id \in ReferralIds \cup {None} : InsertUser(c, id)
           \/ \E k \in DOMAIN users, id \in ReferralIds \cup {None} : OverwriteUser(c, k, id)
<1>1. SentIds \cup {None} \subseteq ReferralIds \cup {None}
  BY DEF RegistrationAssumption
<1>2. \A i \in DOMAIN users :
        SentIds \cup {None, users[i].referralId} \subseteq ReferralIds \cup {None}
  BY <1>1, Rows
<1> QED BY <1>1, <1>2 DEF SaveUser

\* SaveUsers adds the users of the batch, each once.
LEMMA SaveUsersChange ==
    ASSUME RegistrationAssumption, TypeOK, Shapes, SaveUsers
    PROVE  /\ Grows
           /\ \A i \in DOMAIN users : users'[i] = users[i]
           /\ \A i \in DOMAIN users' \ DOMAIN users :
                /\ users'[i].address \in DOMAIN upload.batch
                /\ users'[i].referralId = upload.batch[users'[i].address]
           /\ \A i, j \in DOMAIN users' \ DOMAIN users :
                users'[i].address = users'[j].address => i = j
           /\ \A a \in DOMAIN upload.batch :
                \E i \in DOMAIN users' \ DOMAIN users : users'[i].address = a
<1> DEFINE D == DOMAIN upload.batch
           row == [a \in D |-> NewUser(a, upload.batch[a])]
           S == {NewUser(a, upload.batch[a]) : a \in D}
           s == SetToSeq(S)
<1>1. upload.pc = "saveUsers" /\ users' = users \o s /\ users \in Seq(User)
  BY DEF SaveUsers, TypeOK
<1>2. D \subseteq Addresses /\ \A a \in D : upload.batch[a] \in ReferralIds \cup {None}
  BY <1>1, FileRows DEF Shapes, UploadShaped, file
<1>3. IsFiniteSet(S)
  <2>1. IsFiniteSet(D)
    BY <1>2, FS_Subset DEF RegistrationAssumption
  <2>2. row \in Surjection(D, S)
    BY DEF Surjection
  <2> QED BY <2>1, <2>2, FS_Surjection
<1>4. S \subseteq User
  BY <1>2 DEF User, NewUser
<1>5. /\ s \in Seq(S)
      /\ ToSet(s) = S
      /\ \A i, j \in DOMAIN s : s[i] = s[j] => i = j
  BY <1>3, SetToSeqLists
<1> HIDE DEF s
<1>6. s \in Seq(User)
  BY <1>4, <1>5, SeqMonotonic
<1>7. /\ users' \in Seq(User)
      /\ Len(users') = Len(users) + Len(s)
      /\ \A i \in 1..(Len(users) + Len(s)) :
            users'[i] = IF i <= Len(users) THEN users[i] ELSE s[i - Len(users)]
  BY <1>1, <1>6, ConcatProperties
<1>8. \A i \in DOMAIN users : i \in DOMAIN users' /\ users'[i] = users[i]
  BY <1>1, <1>6, <1>7
<1>9. \A i \in DOMAIN users' \ DOMAIN users :
         i - Len(users) \in DOMAIN s /\ users'[i] = s[i - Len(users)]
  BY <1>1, <1>6, <1>7
<1>10. \A k \in DOMAIN s : k + Len(users) \in DOMAIN users' \ DOMAIN users
                              /\ users'[k + Len(users)] = s[k]
  BY <1>1, <1>6, <1>7
<1>11. \A i \in DOMAIN users' \ DOMAIN users : \E a \in D : users'[i] = NewUser(a, upload.batch[a])
  <2>1. \A k \in DOMAIN s : s[k] \in S
    BY <1>5 DEF ToSet
  <2> QED BY <2>1, <1>9
<1>12. \A i \in DOMAIN users' \ DOMAIN users :
          /\ users'[i].address \in D
          /\ users'[i] = NewUser(users'[i].address, upload.batch[users'[i].address])
          /\ users'[i].referralId = upload.batch[users'[i].address]
  BY <1>11 DEF NewUser
<1>13. \A i, j \in DOMAIN users' \ DOMAIN users : users'[i].address = users'[j].address => i = j
  <2> SUFFICES ASSUME NEW i \in DOMAIN users' \ DOMAIN users,
                      NEW j \in DOMAIN users' \ DOMAIN users,
                      users'[i].address = users'[j].address
               PROVE  i = j
    OBVIOUS
  <2>1. users'[i] = users'[j]
    BY <1>12
  <2>2. s[i - Len(users)] = s[j - Len(users)]
    BY <2>1, <1>9
  <2>3. i - Len(users) = j - Len(users)
    BY <2>2, <1>5, <1>9
  <2> QED BY <2>3, <1>1, <1>7
<1>14. \A a \in D : \E i \in DOMAIN users' \ DOMAIN users : users'[i].address = a
  <2> TAKE a \in D
  <2>1. PICK k \in DOMAIN s : s[k] = NewUser(a, upload.batch[a])
    <3>1. NewUser(a, upload.batch[a]) \in ToSet(s)
      BY <1>5
    <3> QED BY <3>1 DEF ToSet
  <2> QED BY <2>1, <1>10 DEF NewUser
<1> HIDE DEF D
<1>15. Grows
  <2>1. DOMAIN users \subseteq DOMAIN users'
    BY <1>8
  <2> QED BY <2>1, <1>1, <1>6, <1>7 DEF Grows
<1> QED BY <1>8, <1>12, <1>13, <1>14, <1>15 DEF D

\* SaveReferralId puts back the row that was read, with the referral id.
LEMMA SaveReferralIdChange ==
    ASSUME RegistrationAssumption, TypeOK, Shapes,
           NEW c \in Calls, NEW id \in ReferralIds, SaveReferralId(c, id)
    PROVE  /\ Grows
           /\ call[c].id \in DOMAIN users
           /\ \A i \in DOMAIN users : i # call[c].id => users'[i] = users[i]
           /\ users'[call[c].id].address = call[c].address
           /\ DOMAIN users' = DOMAIN users
           /\ FirstIds({call[c].address})
           /\ call[c].address \in Addresses
           /\ call[c].pc = "generate"
<1> DEFINE row == [call[c].user EXCEPT !.referralId = id]
<1>1. /\ call[c].id \in DOMAIN users /\ call[c].user \in User
      /\ call[c].user.address = call[c].address
      /\ call[c].address \in Addresses
      /\ call[c].pc = "generate"
  BY DEF Shapes, CallShaped, SaveReferralId
<1>2. row \in User /\ row.address = call[c].address
  BY <1>1 DEF User
<1>3. users' = [users EXCEPT ![call[c].id] = row] /\ users \in Seq(User)
  BY DEF SaveReferralId, TypeOK
<1> HIDE DEF row
<1>4. users' \in Seq(User) /\ Len(users') = Len(users)
  BY <1>1, <1>2, <1>3, ExceptSeq
<1>5. DOMAIN users' = DOMAIN users /\ Len(users) \in Nat
  BY <1>3, Rows
<1>6. FirstIds({call[c].address})
  BY DEF SaveReferralId
<1> QED BY <1>1, <1>2, <1>3, <1>4, <1>5, <1>6 DEF Grows

\* SaveAwards puts back the rows that were read.
LEMMA SaveAwardsChange ==
    ASSUME RegistrationAssumption, TypeOK, Shapes, SaveAwards
    PROVE  /\ Grows
           /\ DOMAIN users' = DOMAIN users
           /\ \A i \in DOMAIN users :
                users'[i] = IF i \in DOMAIN award THEN award[i] ELSE users[i]
<1>1. users \in Seq(User) /\ award \in [DOMAIN award -> User]
  BY DEF TypeOK
<1>2. users' = [i \in DOMAIN users |-> IF i \in DOMAIN award THEN award[i] ELSE users[i]]
  BY DEF SaveAwards
<1>3. users' \in [1..Len(users) -> User]
  BY <1>1, <1>2
<1>4. users' \in Seq(User) /\ Len(users') = Len(users)
  <2>1. Len(users) \in Nat
    BY <1>1
  <2> QED BY <2>1, <1>3
<1>5. DOMAIN users' = DOMAIN users /\ Len(users) \in Nat
  BY <1>2, Rows
<1> QED BY <1>2, <1>4, <1>5 DEF Grows

-----------------------------------------------------------------------------
(* Types *)

\* What changes the user table.
LEMMA UsersChange ==
    ASSUME RegistrationAssumption, TypeOK, [Next]_vars
    PROVE  \/ users' = users
           \/ \E c \in Calls, id \in ReferralIds \cup {None} : SaveUser(c) /\ InsertUser(c, id)
           \/ \E c \in Calls, k \in DOMAIN users, id \in ReferralIds \cup {None} :
                SaveUser(c) /\ OverwriteUser(c, k, id)
           \/ \E c \in Calls, id \in ReferralIds : SaveReferralId(c, id)
           \/ SaveUsers
           \/ SaveAwards
<1>1. ASSUME NEW c \in Calls, CallStep(c)
      PROVE  \/ users' = users
             \/ SaveUser(c)
             \/ \E id \in ReferralIds : SaveReferralId(c, id)
  BY <1>1, Zenon DEF CallStep, Register, FindReferee, FindAffiliate, SaveAffiliate,
            GenerateReferral, ReferralIdTaken, CallFails
<1>2. UploadStep => users' = users \/ SaveUsers
  BY Zenon DEF UploadStep, Upload, FindUsers, SaveUsersFails, FindRefCode, FindAffiliates,
            SaveAffiliates, SaveAffiliatesFails
<1>3. AwardStep => users' = users \/ SaveAwards
  BY Zenon DEF AwardStep, ReadUsers, SaveAwardsFails
<1>4. ASSUME NEW c \in Calls, SaveUser(c)
      PROVE  \/ \E id \in ReferralIds \cup {None} : InsertUser(c, id)
             \/ \E k \in DOMAIN users, id \in ReferralIds \cup {None} : OverwriteUser(c, k, id)
  BY <1>4, SaveUserSaves
<1> QED BY <1>1, <1>2, <1>3, <1>4, Zenon DEF Next, vars

\* Each step keeps the rows of the user table.
LEMMA TableGrows ==
    ASSUME RegistrationAssumption, TypeOK, Shapes, [Next]_vars
    PROVE  Grows
<1>1. CASE users' = users
  BY <1>1, Rows DEF Grows, TypeOK
<1>2. CASE \E c \in Calls, id \in ReferralIds \cup {None} : InsertUser(c, id)
  BY <1>2, InsertUserChange
<1>3. CASE \E c \in Calls, k \in DOMAIN users, id \in ReferralIds \cup {None} :
             OverwriteUser(c, k, id)
  BY <1>3, OverwriteUserChange
<1>4. CASE \E c \in Calls, id \in ReferralIds : SaveReferralId(c, id)
  BY <1>4, SaveReferralIdChange
<1>5. CASE SaveUsers
  BY <1>5, SaveUsersChange
<1>6. CASE SaveAwards
  BY <1>6, SaveAwardsChange
<1> QED BY <1>1, <1>2, <1>3, <1>4, <1>5, <1>6, UsersChange

CallRecord ==
    [pc : {"idle", "save", "referee", "affiliate", "saveAffiliate", "generate"},
     address : Addresses \cup {None}, referralCode : ReferralIds \cup {None},
     referee : Addresses \cup {None}, id : Nat, user : User \cup {None},
     times : 0..(MaxTimes - 1)]

\* What saving a registration leaves alone, and where the request goes on.
LEMMA SaveUserMoves ==
    ASSUME NEW c \in Calls, SaveUser(c)
    PROVE  /\ call[c].pc = "save" /\ GoesToReferee(c)
           /\ affiliate' = affiliate /\ upload' = upload /\ award' = award
           /\ raced' = raced /\ imported' = imported
           /\ brought \subseteq brought' /\ rewritten \subseteq rewritten'
<1>1. ASSUME NEW id, InsertUser(c, id)
      PROVE  /\ call[c].pc = "save" /\ GoesToReferee(c)
             /\ affiliate' = affiliate /\ upload' = upload /\ award' = award
             /\ raced' = raced /\ imported' = imported
             /\ brought \subseteq brought' /\ rewritten \subseteq rewritten'
  BY <1>1 DEF InsertUser
<1>2. ASSUME NEW k, NEW id, OverwriteUser(c, k, id)
      PROVE  /\ call[c].pc = "save" /\ GoesToReferee(c)
             /\ affiliate' = affiliate /\ upload' = upload /\ award' = award
             /\ raced' = raced /\ imported' = imported
             /\ brought \subseteq brought' /\ rewritten \subseteq rewritten'
  BY <1>2 DEF OverwriteUser
<1> QED BY <1>1, <1>2, Zenon DEF SaveUser

\* A request keeps its fields.
LEMMA CallTyped ==
    ASSUME RegistrationAssumption, TypeOK, Shapes, [Next]_vars
    PROVE  call' \in [Calls -> CallRecord]
<1>1. call \in [Calls -> CallRecord]
  BY DEF TypeOK, CallRecord
<1>2. Idle \in CallRecord
  BY DEF Idle, CallRecord, RegistrationAssumption
<1>3. ASSUME NEW c \in Calls, CallStep(c)
      PROVE  call' \in [Calls -> CallRecord]
  <2>1. ASSUME NEW a \in Addresses, NEW code \in ReferralIds \cup {None}, Register(c, a, code)
        PROVE  call' \in [Calls -> CallRecord]
    <3>1. [Idle EXCEPT !.pc = "save", !.address = a, !.referralCode = code] \in CallRecord
      BY <1>2 DEF CallRecord
    <3> QED BY <1>1, <2>1, <3>1 DEF Register
  <2>2. CASE SaveUser(c)
    <3>1. [call[c] EXCEPT !.pc = "referee"] \in CallRecord
      <4>1. call[c] \in CallRecord
        BY <1>1
      <4> QED BY ONLY <4>1 DEF CallRecord
    <3>2. GoesToReferee(c)
      BY <2>2, SaveUserMoves
    <3> QED BY <1>1, <1>2, <3>1, <3>2 DEF GoesToReferee
  <2>3. CASE FindReferee(c)
    <3>1. ASSUME NEW referee \in Referees(call[c].referralCode)
          PROVE  [call[c] EXCEPT !.pc = "affiliate", !.referralCode = None,
                                 !.referee = referee] \in CallRecord
      <4>1. referee \in Addresses
        BY Rows DEF Referees
      <4>2. call[c] \in CallRecord
        BY <1>1
      <4> QED BY ONLY <4>1, <4>2 DEF CallRecord
    <3> QED BY <1>1, <1>2, <2>3, <3>1 DEF FindReferee, Returns
  <2>4. CASE FindAffiliate(c)
    <3>1. [call[c] EXCEPT !.pc = "saveAffiliate"] \in CallRecord
      <4>1. call[c] \in CallRecord
        BY <1>1
      <4> QED BY ONLY <4>1 DEF CallRecord
    <3> QED BY <1>1, <1>2, <2>4, <3>1 DEF FindAffiliate
  <2>5. CASE SaveAffiliate(c)
    BY <1>1, <1>2, <2>5 DEF SaveAffiliate, Returns
  <2>6. ASSUME NEW i \in DOMAIN users, GenerateReferral(c, i)
        PROVE  call' \in [Calls -> CallRecord]
    <3>1. users[i] \in User /\ users[i].address \in Addresses /\ i \in Nat
      BY Rows
    <3>2. [Idle EXCEPT !.pc = "generate", !.address = users[i].address,
                       !.id = i, !.user = users[i]] \in CallRecord
      BY <1>2, <3>1 DEF CallRecord
    <3> QED BY <1>1, <2>6, <3>2 DEF GenerateReferral
  <2>7. ASSUME NEW id \in ReferralIds, SaveReferralId(c, id)
        PROVE  call' \in [Calls -> CallRecord]
    BY <1>1, <1>2, <2>7 DEF SaveReferralId, Returns
  <2>8. CASE ReferralIdTaken(c)
    <3>1. call[c] \in CallRecord /\ MaxTimes \in Nat
      BY <1>1 DEF RegistrationAssumption
    <3>2. call[c].times + 1 # MaxTimes => call[c].times + 1 \in 0..(MaxTimes - 1)
      BY <3>1 DEF CallRecord
    <3>3. call[c].times + 1 # MaxTimes
            => [call[c] EXCEPT !.times = call[c].times + 1] \in CallRecord
      BY <3>1, <3>2 DEF CallRecord
    <3> QED BY <1>1, <1>2, <2>8, <3>3 DEF ReferralIdTaken
  <2>9. CASE CallFails(c)
    BY <1>1, <1>2, <2>9 DEF CallFails, Returns
  <2> QED BY <1>3, <2>1, <2>2, <2>3, <2>4, <2>5, <2>6, <2>7, <2>8, <2>9, Zenon DEF CallStep
<1>4. UploadStep => call' = call
  BY Zenon DEF UploadStep, Upload, FindUsers, SaveUsers, SaveUsersFails, FindRefCode,
            FindAffiliates, SaveAffiliates, SaveAffiliatesFails
<1>5. AwardStep => call' = call
  BY Zenon DEF AwardStep, ReadUsers, SaveAwards, SaveAwardsFails
<1> QED BY <1>1, <1>3, <1>4, <1>5, Zenon DEF Next, vars

UploadRecord ==
    [pc : {"idle", "users", "saveUsers", "affiliates", "findAffiliates", "saveAffiliates"},
     file : Files \cup {<<>>}, at : Nat \ {0}, batch : Batches]

\* A function on addresses is a batch.
LEMMA BatchTyped ==
    ASSUME NEW D \in SUBSET Addresses, NEW V \in SUBSET (Addresses \cup ReferralIds \cup {None}),
           NEW f \in [D -> V]
    PROVE  f \in Batches
<1>1. f \in [D -> Addresses \cup ReferralIds \cup {None}]
  OBVIOUS
<1> QED BY <1>1 DEF Batches

\* The empty batch.
LEMMA NoBatchTyped == NoBatch \in Batches /\ DOMAIN NoBatch = {}
<1>1. {} \in SUBSET Addresses /\ {} \in SUBSET (Addresses \cup ReferralIds \cup {None})
  OBVIOUS
<1>2. NoBatch \in [{} -> {}] /\ DOMAIN NoBatch = {}
  BY DEF NoBatch
<1> QED BY <1>1, <1>2, BatchTyped, Zenon

\* A referral id of a row, or none.
LEMMA RefIdTyped ==
    ASSUME RegistrationAssumption, TypeOK, NEW m \in Nat \ {0}, NEW n \in m..Len(file), NEW a
    PROVE  /\ RowAddresses(SubSeq(file, m, n)) \subseteq RowAddresses(file)
           /\ RefId(SubSeq(file, m, n), a) \in ReferralIds \cup {None}
<1> DEFINE Row == [address : Addresses, refCode : ReferralIds \cup {None},
                   refId : ReferralIds \cup {None}]
           rows == SubSeq(file, m, n)
<1>1. file \in Seq(Row) /\ m \in Int /\ n \in Int /\ Len(file) \in Nat
  <2>1. file \in Seq(Row) /\ Len(file) \in Nat
    BY FileRows
  <2> QED BY <2>1
<1> HIDE DEF Row
<1>2. \A i \in m..n : i \in DOMAIN file /\ file[i] \in Row
  BY <1>1, FileRows, ElementOfSeq
<1>3. /\ rows \in Seq(Row) /\ Len(rows) = n - m + 1
      /\ \A i \in 1..(n - m + 1) : rows[i] = file[m + i - 1]
  BY <1>1, <1>2, SubSeqProperties
<1> HIDE DEF rows
<1>4. \A i \in DOMAIN rows : rows[i] \in Row /\ \E k \in DOMAIN file : rows[i] = file[k]
  <2> TAKE i \in DOMAIN rows
  <2>1. i \in 1..(n - m + 1) /\ m + i - 1 \in m..n /\ rows[i] = file[m + i - 1]
    <3>1. i \in 1..(n - m + 1)
      BY <1>1, <1>3
    <3>2. m + i - 1 \in m..n
      BY <1>1, <3>1
    <3> QED BY <1>3, <3>1, <3>2
  <2> QED BY <1>2, <2>1
<1>5. RowAddresses(rows) \subseteq RowAddresses(file)
  BY <1>4 DEF RowAddresses
<1>6. RefId(rows, a) \in ReferralIds \cup {None}
  <2> DEFINE valid == {i \in DOMAIN rows : rows[i].address = a /\ rows[i].refId # None}
             last == {i \in valid : \A j \in valid : j <= i}
  <2>1. RefId(rows, a) = IF last = {} THEN None ELSE rows[CHOOSE i \in last : TRUE].refId
    BY DEF RefId
  <2>2. \A i \in DOMAIN rows : rows[i].refId \in ReferralIds \cup {None}
    BY <1>4 DEF Row
  <2>3. last # {} => (CHOOSE i \in last : TRUE) \in DOMAIN rows
    OBVIOUS
  <2> HIDE DEF last
  <2> QED BY <2>1, <2>2, <2>3
<1> QED BY <1>5, <1>6 DEF rows

\* An upload goes on at another row.
LEMMA GoesOnTyped ==
    ASSUME RegistrationAssumption, TypeOK, Shapes, upload.pc # "idle",
           NEW pc \in {"users", "affiliates"}, NEW at \in 1..Len(file)
    PROVE  LET u == [upload EXCEPT !.pc = pc, !.at = at, !.batch = NoBatch]
           IN  u \in UploadRecord /\ UploadShaped(u)
<1> DEFINE u == [upload EXCEPT !.pc = pc, !.at = at, !.batch = NoBatch]
<1>1. upload \in UploadRecord /\ UploadShaped(upload)
  BY DEF TypeOK, UploadRecord, Shapes
<1>2. NoBatch \in Batches /\ DOMAIN NoBatch = {}
  BY NoBatchTyped
<1>3. at \in Nat \ {0} /\ at <= Len(file)
  BY FileRows
<1>4. u \in UploadRecord
  BY <1>1, <1>2, <1>3 DEF UploadRecord
<1>5. u.pc = pc /\ u.at = at /\ u.batch = NoBatch /\ u.file = upload.file
  BY <1>1 DEF UploadRecord
<1> HIDE DEF u
<1>6. UploadShaped(u)
  BY <1>1, <1>2, <1>3, <1>5 DEF UploadShaped, file
<1> QED BY <1>4, <1>6 DEF u

\* After the users up to row n.
LEMMA NextUsersTyped ==
    ASSUME RegistrationAssumption, TypeOK, Shapes, upload.pc # "idle", NEW n \in 1..Len(file)
    PROVE  NextUsers(n) \in UploadRecord /\ UploadShaped(NextUsers(n))
<1>1. n \in Nat /\ 1 \in 1..Len(file) /\ (n < Len(file) => n + 1 \in 1..Len(file))
  BY FileRows
<1> QED BY <1>1, GoesOnTyped DEF NextUsers

\* No upload.
LEMMA NoUploadTyped ==
    ASSUME RegistrationAssumption
    PROVE  NoUpload \in UploadRecord /\ UploadShaped(NoUpload)
<1>1. NoBatch \in Batches /\ DOMAIN NoBatch = {}
  BY NoBatchTyped
<1> QED BY <1>1 DEF NoUpload, UploadRecord, UploadShaped

\* After the affiliates up to row upload.at.
LEMMA NextAffiliatesTyped ==
    ASSUME RegistrationAssumption, TypeOK, Shapes, upload.pc # "idle"
    PROVE  NextAffiliates \in UploadRecord /\ UploadShaped(NextAffiliates)
<1>1. upload.at < Len(file) => upload.at + 1 \in 1..Len(file)
  BY FileRows DEF TypeOK
<1>2. CASE upload.at < Len(file)
  BY <1>1, <1>2, GoesOnTyped DEF NextAffiliates
<1>3. CASE ~(upload.at < Len(file))
  BY <1>3, NoUploadTyped DEF NextAffiliates
<1> QED BY <1>2, <1>3

\* An upload takes a batch of users, or of affiliates, from its rows.
LEMMA TakesBatchTyped ==
    ASSUME RegistrationAssumption, TypeOK, Shapes, upload.pc # "idle",
           NEW pc, NEW at \in 1..Len(file), NEW V, NEW D \in SUBSET RowAddresses(file),
           NEW batch \in [D -> V],
           \/ pc = "saveUsers" /\ V = ReferralIds \cup {None}
           \/ pc \in {"affiliates", "findAffiliates", "saveAffiliates"} /\ V = Addresses
    PROVE  LET u == [upload EXCEPT !.pc = pc, !.at = at, !.batch = batch]
           IN  u \in UploadRecord /\ UploadShaped(u)
<1> DEFINE u == [upload EXCEPT !.pc = pc, !.at = at, !.batch = batch]
<1>1. upload \in UploadRecord /\ UploadShaped(upload)
  BY DEF TypeOK, UploadRecord, Shapes
<1>2. D \subseteq Addresses
  BY FileRows
<1>3. batch \in Batches
  BY <1>2, BatchTyped
<1>4. at \in Nat \ {0} /\ at <= Len(file)
  BY FileRows
<1>5. u \in UploadRecord
  BY <1>1, <1>3, <1>4 DEF UploadRecord
<1>6. u.pc = pc /\ u.at = at /\ u.batch = batch /\ u.file = upload.file
  BY <1>1 DEF UploadRecord
<1> HIDE DEF u
<1>7. UploadShaped(u)
  BY <1>1, <1>4, <1>6 DEF UploadShaped, file
<1> QED BY <1>5, <1>7 DEF u

\* Each step of an upload leaves it somewhere in its file.
LEMMA UploadTyped ==
    ASSUME RegistrationAssumption, TypeOK, Shapes, UploadStep
    PROVE  upload' \in UploadRecord /\ UploadShaped(upload')
<1> DEFINE Good(u) == u \in UploadRecord /\ UploadShaped(u)
<1>1. Good(upload)
  BY DEF TypeOK, UploadRecord, Shapes
<1>2. upload.pc # "idle" => upload.at \in 1..Len(file)
  BY FileRows DEF Shapes, UploadShaped, TypeOK, file
<1>3. upload.batch \in [DOMAIN upload.batch -> Addresses \cup ReferralIds \cup {None}]
  BY DEF TypeOK, Batches
<1>4. DOMAIN upload.batch \subseteq RowAddresses(file)
  BY DEF Shapes, UploadShaped, file
<1>5. ASSUME NEW f \in Files, Upload(f)
      PROVE  Good(upload')
  <2>1. f \in Files \cup {<<>>} /\ f # <<>> /\ 1 <= Len(f)
    <3> DEFINE Row == [address : Addresses, refCode : ReferralIds \cup {None},
                       refId : ReferralIds \cup {None}]
    <3>1. f \in Seq(Row) /\ f # <<>>
      BY DEF RegistrationAssumption
    <3> HIDE DEF Row
    <3> QED BY <3>1, EmptySeq
  <2> DEFINE u == [NoUpload EXCEPT !.pc = "users", !.file = f]
  <2>2. u \in UploadRecord
    BY <2>1, NoUploadTyped DEF UploadRecord
  <2>3. u.pc = "users" /\ u.file = f /\ u.at = 1 /\ u.batch = NoBatch
    BY DEF NoUpload
  <2>4. upload' = u
    BY <1>5 DEF Upload
  <2> HIDE DEF u
  <2>5. UploadShaped(u)
    BY <2>1, <2>3, NoBatchTyped DEF UploadShaped
  <2> QED BY <2>2, <2>4, <2>5
<1>6. CASE FindUsers
  <2>1. PICK n \in upload.at..Len(file) :
          LET rows == SubSeq(file, upload.at, n)
              batch == [a \in RowAddresses(rows) \ Registered |-> RefId(rows, a)]
          IN  upload' = IF DOMAIN batch = {} THEN NextUsers(n)
                        ELSE [upload EXCEPT !.pc = "saveUsers", !.at = n, !.batch = batch]
    BY <1>6 DEF FindUsers
  <2> DEFINE rows == SubSeq(file, upload.at, n)
             D == RowAddresses(rows) \ Registered
             batch == [a \in D |-> RefId(rows, a)]
  <2>2. upload.pc # "idle" /\ upload.at \in Nat \ {0} /\ n \in 1..Len(file)
    BY <1>2, <1>6, FileRows DEF FindUsers, TypeOK
  <2>3. D \in SUBSET RowAddresses(file) /\ batch \in [D -> ReferralIds \cup {None}]
    BY <2>2, RefIdTyped
  <2>4. Good(NextUsers(n))
    BY <2>2, NextUsersTyped
  <2> HIDE DEF D, batch
  <2>5. Good([upload EXCEPT !.pc = "saveUsers", !.at = n, !.batch = batch])
    BY <2>2, <2>3, TakesBatchTyped
  <2> QED BY <2>1, <2>4, <2>5 DEF batch, D
<1>7. CASE SaveUsers \/ SaveUsersFails
  BY <1>2, <1>7, NextUsersTyped DEF SaveUsers, SaveUsersFails
<1>8. CASE FindRefCode
  <2> DEFINE row == file[upload.at]
  <2>1. upload.pc = "affiliates" /\ upload.at \in 1..Len(file)
    BY <1>2, <1>8 DEF FindRefCode
  <2>2. row.address \in RowAddresses(file)
    BY <2>1, FileRows DEF RowAddresses
  <2>3. upload.batch \in [DOMAIN upload.batch -> Addresses]
    BY <1>3, <2>1 DEF Shapes, UploadShaped
  <2> DEFINE Go(b) ==
               upload' = IF b = NoBatch THEN NextAffiliates
                         ELSE IF Cardinality(DOMAIN b) >= ChunkSize \/ upload.at = Len(file)
                         THEN [upload EXCEPT !.pc = "findAffiliates", !.batch = b]
                         ELSE [upload EXCEPT !.at = upload.at + 1, !.batch = b]
             with(referee) == [a \in DOMAIN upload.batch \cup {row.address} |->
                                 IF a = row.address THEN referee ELSE upload.batch[a]]
  <2>4. ASSUME NEW D \in SUBSET RowAddresses(file), NEW batch \in [D -> Addresses], Go(batch)
        PROVE  Good(upload')
    <3>1. Good(NextAffiliates)
      BY <2>1, NextAffiliatesTyped
    <3>2. Good([upload EXCEPT !.pc = "findAffiliates", !.at = upload.at, !.batch = batch])
      BY <2>1, TakesBatchTyped
    <3>3. [upload EXCEPT !.pc = "findAffiliates", !.at = upload.at, !.batch = batch]
            = [upload EXCEPT !.pc = "findAffiliates", !.batch = batch]
      BY <1>1 DEF UploadRecord
    <3>4. upload.at # Len(file) => upload.at + 1 \in 1..Len(file)
      BY <2>1, FileRows
    <3>5. upload.at # Len(file) =>
            Good([upload EXCEPT !.pc = "affiliates", !.at = upload.at + 1, !.batch = batch])
      BY <2>1, <3>4, TakesBatchTyped
    <3>6. [upload EXCEPT !.pc = "affiliates", !.at = upload.at + 1, !.batch = batch]
            = [upload EXCEPT !.at = upload.at + 1, !.batch = batch]
      BY <1>1, <2>1 DEF UploadRecord
    <3> HIDE DEF Good
    <3> QED BY <2>4, <3>1, <3>2, <3>3, <3>5, <3>6
  <2>5. ASSUME NEW referee \in Referees(row.refCode)
        PROVE  with(referee) \in [DOMAIN upload.batch \cup {row.address} -> Addresses]
    <3>1. referee \in Addresses
      BY <2>5, Rows DEF Referees
    <3> QED BY <2>3, <3>1
  <2>6. DOMAIN upload.batch \in SUBSET RowAddresses(file)
        /\ DOMAIN upload.batch \cup {row.address} \in SUBSET RowAddresses(file)
    BY <1>4, <2>2
  <2>7. Go(upload.batch) \/ \E referee \in Referees(row.refCode) : Go(with(referee))
    BY <1>8, Zenon DEF FindRefCode
  <2> HIDE DEF Good, row, Go, with
  <2>8. Go(upload.batch) => Good(upload')
    BY <2>3, <2>4, <2>6
  <2>9. (\E referee \in Referees(row.refCode) : Go(with(referee))) => Good(upload')
    BY <2>4, <2>5, <2>6
  <2> QED BY <2>7, <2>8, <2>9 DEF Good
<1>9. CASE FindAffiliates
  <2>1. upload.pc = "findAffiliates" /\ upload.at \in 1..Len(file)
    BY <1>2, <1>9 DEF FindAffiliates
  <2> DEFINE new == {a \in DOMAIN upload.batch : affiliate[a] = None}
             batch == Restrict(upload.batch, new)
  <2>2. new \in SUBSET RowAddresses(file) /\ batch \in [new -> Addresses]
    BY <1>4, <2>1 DEF Shapes, UploadShaped, Restrict
  <2>3. Good(NextAffiliates)
    BY <2>1, NextAffiliatesTyped
  <2> HIDE DEF new, batch
  <2>4. Good([upload EXCEPT !.pc = "saveAffiliates", !.at = upload.at, !.batch = batch])
    BY <2>1, <2>2, TakesBatchTyped
  <2>5. [upload EXCEPT !.pc = "saveAffiliates", !.at = upload.at, !.batch = batch]
          = [upload EXCEPT !.pc = "saveAffiliates", !.batch = batch]
    BY <1>1 DEF UploadRecord
  <2> QED BY <1>9, <2>3, <2>4, <2>5 DEF FindAffiliates, batch, new
<1>10. CASE SaveAffiliates \/ SaveAffiliatesFails
  BY <1>2, <1>10, NextAffiliatesTyped DEF SaveAffiliates, SaveAffiliatesFails
<1> QED BY <1>5, <1>6, <1>7, <1>8, <1>9, <1>10, Zenon DEF UploadStep

\* Which variables a step of the upload leaves alone.
LEMMA UploadKeepsCalls ==
    ASSUME UploadStep
    PROVE  call' = call /\ award' = award
BY Zenon DEF UploadStep, Upload, FindUsers, SaveUsers, SaveUsersFails, FindRefCode,
      FindAffiliates, SaveAffiliates, SaveAffiliatesFails

\* Which variables a step of the awards leaves alone.
LEMMA AwardKeepsOthers ==
    ASSUME AwardStep
    PROVE  /\ call' = call /\ upload' = upload /\ affiliate' = affiliate
           /\ idOrder' = idOrder /\ imported' = imported
BY Zenon DEF AwardStep, ReadUsers, SaveAwards, SaveAwardsFails, history

\* Which variables a step of a request leaves alone.
LEMMA CallKeepsUpload ==
    ASSUME NEW c \in Calls, CallStep(c)
    PROVE  upload' = upload /\ award' = award /\ imported' = imported
BY SaveUserMoves, Zenon DEF CallStep, Register, FindReferee, FindAffiliate, SaveAffiliate,
      GenerateReferral, SaveReferralId, ReferralIdTaken, CallFails, history

\* Only a registration that is saved changes brought and rewritten.
LEMMA SentKept ==
    ASSUME [Next]_vars
    PROVE  \/ brought' = brought /\ rewritten' = rewritten
           \/ \E c \in Calls : SaveUser(c)
<1>1. sent' = sent \/ \E c \in Calls : SaveUser(c)
  <2>1. ASSUME NEW c \in Calls, CallStep(c)
        PROVE  sent' = sent \/ SaveUser(c)
    BY <2>1, Zenon DEF CallStep, Register, FindReferee, FindAffiliate, SaveAffiliate,
          GenerateReferral, SaveReferralId, ReferralIdTaken, CallFails, history
  <2>2. UploadStep => sent' = sent
    BY Zenon DEF UploadStep, Upload, FindUsers, SaveUsers, SaveUsersFails, FindRefCode,
          FindAffiliates, SaveAffiliates, SaveAffiliatesFails, history
  <2>3. AwardStep => sent' = sent
    BY Zenon DEF AwardStep, ReadUsers, SaveAwards, SaveAwardsFails, history
  <2> QED BY <2>1, <2>2, <2>3, Zenon DEF Next, vars, history
<1> QED BY <1>1 DEF sent

\* brought and rewritten only grow.
LEMMA SentGrows ==
    ASSUME [Next]_vars
    PROVE  brought \subseteq brought' /\ rewritten \subseteq rewritten'
BY SentKept, SaveUserMoves

\* What becomes of an award.
LEMMA AwardChange ==
    ASSUME [Next]_vars
    PROVE  \/ award' = award /\ ~SaveAwards
           \/ award' = NoAward
           \/ \E winners \in (SUBSET Registered) \ {{}} : ReadUsers(winners)
<1>1. AwardStep => \/ award' = NoAward
                   \/ \E winners \in (SUBSET Registered) \ {{}} : ReadUsers(winners)
  BY Zenon DEF AwardStep, SaveAwards, SaveAwardsFails
<1>2. ~AwardStep => award' = award /\ ~SaveAwards
  BY CallKeepsUpload, UploadKeepsCalls, Zenon DEF Next, vars, AwardStep
<1> QED BY <1>1, <1>2, Zenon

\* What raced and idOrder become.
RacedGrows ==
    \/ raced' = raced
    \/ \E A \in SUBSET Addresses : WorksOn(A)

IdsGrow ==
    \/ idOrder' = idOrder
    \/ \E A \in SUBSET Addresses : FirstIds(A)

\* raced and idOrder only grow, by addresses.
LEMMA HistoryGrows ==
    ASSUME RegistrationAssumption, TypeOK, Shapes, [Next]_vars
    PROVE  RacedGrows /\ IdsGrow
<1>1. ASSUME NEW c \in Calls, CallStep(c)
      PROVE  RacedGrows /\ IdsGrow
  <2>1. ASSUME NEW a \in Addresses, NEW code, Register(c, a, code)
        PROVE  RacedGrows /\ IdsGrow
    <3>1. WorksOn({a}) /\ idOrder' = idOrder /\ {a} \in SUBSET Addresses
      BY <2>1 DEF Register
    <3> QED BY <3>1 DEF RacedGrows, IdsGrow
  <2>2. ASSUME NEW i \in DOMAIN users, GenerateReferral(c, i)
        PROVE  RacedGrows /\ IdsGrow
    <3>1. /\ WorksOn({users[i].address}) /\ idOrder' = idOrder
          /\ {users[i].address} \in SUBSET Addresses
      BY <2>2, Rows DEF GenerateReferral
    <3> QED BY <3>1 DEF RacedGrows, IdsGrow
  <2>3. ASSUME NEW id \in ReferralIds, SaveReferralId(c, id)
        PROVE  RacedGrows /\ IdsGrow
    <3>1. /\ raced' = raced /\ FirstIds({call[c].address})
          /\ {call[c].address} \in SUBSET Addresses
      BY <2>3 DEF SaveReferralId, Shapes, CallShaped
    <3> QED BY <3>1 DEF RacedGrows, IdsGrow
  <2>4. CASE FindReferee(c) \/ FindAffiliate(c) \/ SaveAffiliate(c)
               \/ ReferralIdTaken(c) \/ CallFails(c)
    <3>1. raced' = raced /\ idOrder' = idOrder
      BY <2>4, Zenon DEF FindReferee, FindAffiliate, SaveAffiliate, ReferralIdTaken,
               CallFails, history
    <3> QED BY <3>1 DEF RacedGrows, IdsGrow
  <2>5. CASE SaveUser(c)
    <3>1. PICK id \in ReferralIds \cup {None} : Holds(call[c].address, id)
      BY <2>5, SaveUserSaves, Zenon DEF InsertUser, OverwriteUser
    <3>2. raced' = raced /\ {call[c].address} \in SUBSET Addresses
      BY <2>5, SaveUserMoves, SentTyped
    <3> QED BY <3>1, <3>2 DEF RacedGrows, IdsGrow, Holds
  <2> QED BY <1>1, <2>1, <2>2, <2>3, <2>4, <2>5, Zenon DEF CallStep
<1>2. ASSUME NEW f \in Files, Upload(f)
      PROVE  RacedGrows /\ IdsGrow
  <2>1. RowAddresses(f) \in SUBSET Addresses
    <3> DEFINE Row == [address : Addresses, refCode : ReferralIds \cup {None},
                       refId : ReferralIds \cup {None}]
    <3>1. f \in Seq(Row)
      BY DEF RegistrationAssumption
    <3>2. \A i \in DOMAIN f : f[i] \in Row
      <4> HIDE DEF Row
      <4> QED BY <3>1, LenProperties, ElementOfSeq
    <3> QED BY <3>2 DEF RowAddresses
  <2>2. WorksOn(RowAddresses(f)) /\ idOrder' = idOrder
    BY <1>2 DEF Upload
  <2> QED BY <2>1, <2>2 DEF RacedGrows, IdsGrow
<1>3. CASE SaveUsers
  <2> DEFINE withId == {a \in DOMAIN upload.batch : upload.batch[a] # None}
  <2>1. raced' = raced /\ FirstIds(withId)
    BY <1>3 DEF SaveUsers
  <2>2. withId \in SUBSET Addresses
    BY FileRows DEF Shapes, UploadShaped, file
  <2> QED BY <2>1, <2>2 DEF RacedGrows, IdsGrow
<1>4. CASE FindUsers \/ SaveUsersFails \/ FindRefCode \/ FindAffiliates \/ SaveAffiliates
             \/ SaveAffiliatesFails \/ SaveAwards \/ SaveAwardsFails \/ UNCHANGED vars
  <2>1. raced' = raced /\ idOrder' = idOrder
    BY <1>4, Zenon DEF FindUsers, SaveUsersFails, FindRefCode, FindAffiliates, SaveAffiliates,
             SaveAffiliatesFails, SaveAwards, SaveAwardsFails, vars, history
  <2> QED BY <2>1 DEF RacedGrows, IdsGrow
<1>5. ASSUME NEW winners \in (SUBSET Registered) \ {{}}, ReadUsers(winners)
      PROVE  RacedGrows /\ IdsGrow
  <2>1. WorksOn(winners) /\ idOrder' = idOrder
    BY <1>5 DEF ReadUsers
  <2>2. winners \in SUBSET Addresses
    BY Rows DEF Registered
  <2> QED BY <2>1, <2>2 DEF RacedGrows, IdsGrow
<1> QED BY <1>1, <1>2, <1>3, <1>4, <1>5, Zenon DEF Next, UploadStep, AwardStep

\* The shapes of the variables are kept.
LEMMA TypeOKNext ==
    ASSUME RegistrationAssumption, TypeOK, Shapes, [Next]_vars
    PROVE  TypeOK'
<1>1. users' \in Seq(User)
  BY TableGrows DEF Grows
<1>2. affiliate' \in [Addresses -> Addresses \cup {None}]
  <2>0. affiliate \in [Addresses -> Addresses \cup {None}]
    BY DEF TypeOK
  <2>1. ASSUME NEW c \in Calls, SaveAffiliate(c)
        PROVE  affiliate' \in [Addresses -> Addresses \cup {None}]
    <3>1. call[c].referee \in Addresses
      BY <2>1 DEF Shapes, CallShaped, SaveAffiliate
    <3> QED BY <2>0, <2>1, <3>1 DEF SaveAffiliate
  <2>2. CASE SaveAffiliates
    BY <2>0, <2>2 DEF SaveAffiliates, Shapes, UploadShaped
  <2>3. ASSUME NEW c \in Calls, CallStep(c)
        PROVE  SaveAffiliate(c) \/ affiliate' = affiliate
    BY <2>3, SaveUserMoves, Zenon DEF CallStep, Register, FindReferee, FindAffiliate,
             GenerateReferral, SaveReferralId, ReferralIdTaken, CallFails
  <2>4. UploadStep => SaveAffiliates \/ affiliate' = affiliate
    BY Zenon DEF UploadStep, Upload, FindUsers, SaveUsers, SaveUsersFails, FindRefCode,
          FindAffiliates, SaveAffiliatesFails
  <2> QED BY <2>0, <2>1, <2>2, <2>3, <2>4, AwardKeepsOthers, Zenon DEF Next, vars
<1>3. call' \in [Calls -> CallRecord]
  BY CallTyped
<1>4. upload' \in UploadRecord
  <2>1. upload \in UploadRecord
    BY DEF TypeOK, UploadRecord
  <2> QED BY <2>1, UploadTyped, CallKeepsUpload, AwardKeepsOthers, Zenon DEF Next, vars
<1>5. award' \in [DOMAIN award' -> User] /\ DOMAIN award' \subseteq DOMAIN users'
  <2>1. /\ award \in [DOMAIN award -> User] /\ DOMAIN award \subseteq DOMAIN users
        /\ DOMAIN users \subseteq DOMAIN users' /\ \A i \in DOMAIN users : users[i] \in User
    BY TableGrows, Rows DEF TypeOK, Grows
  <2>2. CASE award' = award
    BY <2>1, <2>2
  <2>3. CASE award' = NoAward
    BY <2>3 DEF NoAward
  <2>4. ASSUME NEW winners, ReadUsers(winners)
        PROVE  award' \in [DOMAIN award' -> User] /\ DOMAIN award' \subseteq DOMAIN users'
    BY <2>1, <2>4 DEF ReadUsers
  <2> QED BY <2>2, <2>3, <2>4, AwardChange, Zenon
<1>6. raced' \subseteq Addresses
  BY HistoryGrows DEF RacedGrows, WorksOn, TypeOK
<1>7. idOrder' \in Seq(Addresses)
  <2>1. idOrder \in Seq(Addresses)
    BY DEF TypeOK
  <2> QED BY <2>1, HistoryGrows, FirstIdsAppends DEF IdsGrow
<1>8. imported' \subseteq Addresses
  <2>1. imported \subseteq Addresses /\ DOMAIN upload.batch \subseteq Addresses
    BY FileRows DEF TypeOK, Shapes, UploadShaped, file
  <2>2. UploadStep => imported' = imported \/ imported' = imported \cup DOMAIN upload.batch
    BY Zenon DEF UploadStep, Upload, FindUsers, SaveUsers, SaveUsersFails, FindRefCode,
          FindAffiliates, SaveAffiliates, SaveAffiliatesFails, history
  <2>3. ~UploadStep => imported' = imported
    BY CallKeepsUpload, AwardKeepsOthers, Zenon DEF Next, vars, history
  <2> QED BY <2>1, <2>2, <2>3
<1>9. brought' \subseteq Addresses /\ rewritten' \subseteq Addresses
  <2>1. brought \subseteq Addresses /\ rewritten \subseteq Addresses
    BY DEF TypeOK
  <2>2. ASSUME NEW c \in Calls, NEW id \in ReferralIds \cup {None}, InsertUser(c, id)
        PROVE  brought' \subseteq Addresses /\ rewritten' \subseteq Addresses
    <3>1. call[c].address \in Addresses
      BY <2>2, SentTyped DEF InsertUser
    <3>2. /\ brought' = IF id = None THEN brought ELSE brought \cup {call[c].address}
          /\ rewritten' = rewritten
      BY <2>2 DEF InsertUser
    <3> QED BY <2>1, <3>1, <3>2
  <2>3. ASSUME NEW c \in Calls, NEW k \in DOMAIN users, NEW id \in ReferralIds \cup {None},
               OverwriteUser(c, k, id)
        PROVE  brought' \subseteq Addresses /\ rewritten' \subseteq Addresses
    <3>1. call[c].address \in Addresses /\ users[k].address \in Addresses
      BY <2>3, SentTyped, Rows DEF OverwriteUser
    <3>2. /\ brought' = brought
          /\ rewritten' = rewritten \cup {call[c].address, users[k].address}
      BY <2>3 DEF OverwriteUser
    <3> QED BY <2>1, <3>1, <3>2
  <2>4. ASSUME NEW c \in Calls, SaveUser(c)
        PROVE  brought' \subseteq Addresses /\ rewritten' \subseteq Addresses
    BY <2>2, <2>3, <2>4, SaveUserSaves
  <2> QED BY <2>1, <2>4, SentKept
<1> QED BY <1>1, <1>2, <1>3, <1>4, <1>5, <1>6, <1>7, <1>8, <1>9
        DEF TypeOK, CallRecord, UploadRecord

-----------------------------------------------------------------------------
(* Where requests, upload and award get to *)

\* A request changes nothing of the others.
LEMMA OthersKept ==
    ASSUME TypeOK, NEW c \in Calls, CallStep(c), NEW d \in Calls \ {c}
    PROVE  call'[d] = call[d]
<1>1. call \in [Calls -> CallRecord]
  BY DEF TypeOK, CallRecord
<1>2. SaveUser(c) => GoesToReferee(c)
  BY SaveUserMoves
<1> QED BY <1>1, <1>2 DEF CallStep, Register, GoesToReferee, FindReferee, FindAffiliate,
         SaveAffiliate, GenerateReferral, SaveReferralId, ReferralIdTaken, CallFails, Returns

\* A request is over, goes on with its user, or takes one up.
Starts(c) ==
    /\ call[c].pc = "idle"
    /\ call'[c].pc \in {"save", "generate"}
    /\ call'[c].address \in Addresses
    /\ WorksOn({call'[c].address})

GoesOn(c) ==
    /\ call[c].pc # "idle"
    /\ call'[c].address = call[c].address
    /\ \/ call[c].pc = "save" /\ call'[c].pc = "referee" /\ SaveUser(c)
       \/ call[c].pc = "referee" /\ call'[c].pc = "affiliate" /\ FindReferee(c)
       \/ /\ call[c].pc = "affiliate" /\ call'[c].pc = "saveAffiliate"
          /\ call'[c].referee = call[c].referee /\ FindAffiliate(c)
       \/ /\ call[c].pc = "generate" /\ call'[c].pc = "generate" /\ ReferralIdTaken(c)
          /\ call'[c].id = call[c].id /\ call'[c].user = call[c].user

\* A request that returns is over.
LEMMA ReturnsIdle ==
    ASSUME TypeOK, NEW c \in Calls,
           \/ SaveAffiliate(c)
           \/ CallFails(c)
           \/ \E id \in ReferralIds : SaveReferralId(c, id)
    PROVE  call'[c].pc = "idle"
<1>1. Returns(c)
  BY Zenon DEF SaveAffiliate, CallFails, SaveReferralId
<1>2. call \in [Calls -> CallRecord]
  BY DEF TypeOK, CallRecord
<1> QED BY <1>1, <1>2 DEF Returns, Idle

\* FindReferee ends the request or finds a referee.
LEMMA FindRefereeMoves ==
    ASSUME TypeOK, NEW c \in Calls, FindReferee(c)
    PROVE  \/ call'[c].pc = "idle"
           \/ /\ call'[c].pc = "affiliate" /\ call'[c].address = call[c].address
              /\ call'[c].referee \in Referees(call[c].referralCode)
<1>1. call \in [Calls -> CallRecord] /\ call[c] \in CallRecord
  BY DEF TypeOK, CallRecord
<1>2. CASE Returns(c)
  BY <1>1, <1>2 DEF Returns, Idle
<1>3. ASSUME NEW referee \in Referees(call[c].referralCode) \ {call[c].address},
             call' = [call EXCEPT ![c] = [call[c] EXCEPT !.pc = "affiliate",
                                                         !.referralCode = None,
                                                         !.referee = referee]]
      PROVE  /\ call'[c].pc = "affiliate" /\ call'[c].address = call[c].address
             /\ call'[c].referee \in Referees(call[c].referralCode)
  <2>1. call'[c] = [call[c] EXCEPT !.pc = "affiliate", !.referralCode = None, !.referee = referee]
    BY <1>1, <1>3
  <2> QED BY <1>1, <2>1 DEF CallRecord
<1> QED BY <1>2, <1>3, Zenon DEF FindReferee

\* A step of a request is one of the three.
LEMMA CallMoves ==
    ASSUME RegistrationAssumption, TypeOK, NEW c \in Calls, CallStep(c)
    PROVE  call'[c].pc = "idle" \/ Starts(c) \/ GoesOn(c)
<1>1. call \in [Calls -> CallRecord] /\ call[c] \in CallRecord
  BY DEF TypeOK, CallRecord
<1>2. ASSUME NEW a \in Addresses, NEW code, Register(c, a, code)
      PROVE  Starts(c)
  BY <1>1, <1>2 DEF Register, Starts, Idle
<1>3. CASE SaveUser(c)
  BY <1>1, <1>3, SaveUserMoves DEF GoesToReferee, GoesOn, Idle, CallRecord
<1>4. CASE FindReferee(c)
  BY <1>4, FindRefereeMoves DEF FindReferee, GoesOn
<1>5. CASE FindAffiliate(c)
  BY <1>1, <1>5 DEF FindAffiliate, GoesOn, Idle, CallRecord
<1>6. CASE SaveAffiliate(c) \/ CallFails(c) \/ \E id \in ReferralIds : SaveReferralId(c, id)
  BY <1>6, ReturnsIdle
<1>7. ASSUME NEW i \in DOMAIN users, GenerateReferral(c, i)
      PROVE  Starts(c)
  <2>1. users[i].address \in Addresses
    BY Rows
  <2> QED BY <1>1, <1>7, <2>1 DEF GenerateReferral, Starts, Idle
<1>8. CASE ReferralIdTaken(c)
  BY <1>1, <1>8 DEF ReferralIdTaken, GoesOn, Idle, CallRecord
<1> QED BY <1>2, <1>3, <1>4, <1>5, <1>6, <1>7, <1>8, Zenon DEF CallStep

\* A request keeps its shape.
LEMMA CallShapedNext ==
    ASSUME RegistrationAssumption, TypeOK, Shapes, [Next]_vars, NEW d \in Calls
    PROVE  CallShaped(d)'
<1>1. Grows /\ CallShaped(d)
  BY TableGrows DEF Shapes
<1>2. ASSUME call'[d] = call[d]
      PROVE  CallShaped(d)'
  BY <1>1, <1>2 DEF CallShaped, Grows
<1>3. ASSUME call'[d].pc = "idle"
      PROVE  CallShaped(d)'
  BY <1>3 DEF CallShaped
<1>4. call \in [Calls -> CallRecord] /\ call[d] \in CallRecord
  BY DEF TypeOK, CallRecord
<1>5. ASSUME CallStep(d)
      PROVE  CallShaped(d)'
  <2>1. ASSUME NEW a \in Addresses, NEW code, Register(d, a, code)
        PROVE  CallShaped(d)'
    <3>1. call'[d].pc = "save" /\ call'[d].address = a
      BY <1>4, <2>1 DEF Register, Idle
    <3> QED BY <3>1 DEF CallShaped
  <2>2. CASE SaveUser(d)
    <3>1. /\ call[d].pc = "save"
          /\ \/ call'[d].pc = "idle"
             \/ /\ call'[d].pc = "referee" /\ call'[d].address = call[d].address
                /\ call'[d].referralCode # None
      BY <1>4, <2>2, SaveUserMoves DEF GoesToReferee, Idle, CallRecord
    <3> QED BY <1>1, <3>1 DEF CallShaped
  <2>3. CASE FindReferee(d)
    <3>1. \/ call'[d].pc = "idle"
          \/ /\ call'[d].pc = "affiliate" /\ call'[d].address = call[d].address
             /\ call'[d].referee \in Referees(call[d].referralCode)
      BY <1>4, <2>3, FindRefereeMoves
    <3>2. Referees(call[d].referralCode) \subseteq Addresses
      BY Rows DEF Referees
    <3> QED BY <1>1, <2>3, <3>1, <3>2 DEF CallShaped, FindReferee
  <2>4. CASE FindAffiliate(d)
    <3>1. \/ call'[d].pc = "idle"
          \/ /\ call'[d].pc = "saveAffiliate" /\ call'[d].address = call[d].address
             /\ call'[d].referee = call[d].referee
      BY <1>4, <2>4 DEF FindAffiliate, Idle, CallRecord
    <3> QED BY <1>1, <2>4, <3>1 DEF CallShaped, FindAffiliate
  <2>5. CASE SaveAffiliate(d) \/ CallFails(d) \/ \E id \in ReferralIds : SaveReferralId(d, id)
    BY <1>3, <2>5, ReturnsIdle
  <2>6. ASSUME NEW i \in DOMAIN users, GenerateReferral(d, i)
        PROVE  CallShaped(d)'
    <3>1. /\ call'[d].pc = "generate" /\ call'[d].address = users[i].address
          /\ call'[d].id = i /\ call'[d].user = users[i] /\ users[i].referralId = None
      BY <1>4, <2>6 DEF GenerateReferral, Idle
    <3>2. users[i] \in User /\ users[i].address \in Addresses
      BY Rows
    <3> QED BY <1>1, <3>1, <3>2 DEF CallShaped, Grows
  <2>7. CASE ReferralIdTaken(d)
    <3>1. \/ call'[d].pc = "idle"
          \/ /\ call'[d].pc = "generate" /\ call'[d].address = call[d].address
             /\ call'[d].id = call[d].id /\ call'[d].user = call[d].user
      BY <1>4, <2>7 DEF ReferralIdTaken, Idle, CallRecord
    <3> QED BY <1>1, <2>7, <3>1 DEF CallShaped, ReferralIdTaken, Grows
  <2> QED BY <1>5, <2>1, <2>2, <2>3, <2>4, <2>5, <2>6, <2>7, Zenon DEF CallStep
<1>6. ASSUME NEW c \in Calls, CallStep(c), c # d
      PROVE  CallShaped(d)'
  BY <1>2, <1>6, OthersKept
<1> QED BY <1>2, <1>5, <1>6, UploadKeepsCalls, AwardKeepsOthers, Zenon DEF Next, vars

\* Shapes is kept.
LEMMA ShapesNext ==
    ASSUME RegistrationAssumption, TypeOK, Shapes, [Next]_vars
    PROVE  Shapes'
<1>1. \A c \in Calls : CallShaped(c)'
  BY CallShapedNext
<1>2. UploadShaped(upload')
  <2>1. UploadShaped(upload)
    BY DEF Shapes
  <2> QED BY <2>1, UploadTyped, CallKeepsUpload, AwardKeepsOthers, Zenon DEF Next, vars
<1> QED BY <1>1, <1>2 DEF Shapes

-----------------------------------------------------------------------------
(* Two things under way with one user *)

\* raced only grows.
LEMMA RacedKept ==
    ASSUME RegistrationAssumption, TypeOK, Shapes, [Next]_vars
    PROVE  raced \subseteq raced'
BY HistoryGrows DEF RacedGrows, WorksOn

\* An upload keeps its file until it is over.
LEMMA UploadFile ==
    ASSUME RegistrationAssumption, TypeOK, UploadStep
    PROVE  \/ RowAddresses(upload'.file) \subseteq RowAddresses(upload.file)
           \/ \E f \in Files : upload'.file = f /\ Upload(f)
<1>1. upload \in UploadRecord
  BY DEF TypeOK, UploadRecord
<1>2. RowAddresses(NoUpload.file) = {}
  BY DEF NoUpload, RowAddresses
<1>3. ASSUME NEW f \in Files, Upload(f)
      PROVE  upload'.file = f /\ Upload(f)
  BY <1>3 DEF Upload, NoUpload
<1>4. NextAffiliates.file = upload.file \/ NextAffiliates.file = NoUpload.file
  BY <1>1 DEF NextAffiliates, UploadRecord
<1>5. \A n : NextUsers(n).file = upload.file
  BY <1>1 DEF NextUsers, UploadRecord
<1>6. CASE FindUsers \/ SaveUsers \/ SaveUsersFails
  <2>1. \/ \E n : upload' = NextUsers(n)
        \/ \E n, batch : upload' = [upload EXCEPT !.pc = "saveUsers", !.at = n, !.batch = batch]
    BY <1>6, Zenon DEF FindUsers, SaveUsers, SaveUsersFails
  <2>2. \A n, batch : [upload EXCEPT !.pc = "saveUsers", !.at = n, !.batch = batch].file
                        = upload.file
    BY <1>1 DEF UploadRecord
  <2>3. upload'.file = upload.file
    BY <1>5, <2>1, <2>2
  <2> QED BY <2>3
<1>7. CASE FindRefCode \/ FindAffiliates \/ SaveAffiliates \/ SaveAffiliatesFails
  <2>1. upload'.file = upload.file \/ upload' = NextAffiliates
    <3>1. CASE FindRefCode
      <4>1. \E batch : upload' = IF batch = NoBatch THEN NextAffiliates
                        ELSE IF Cardinality(DOMAIN batch) >= ChunkSize \/ upload.at = Len(file)
                        THEN [upload EXCEPT !.pc = "findAffiliates", !.batch = batch]
                        ELSE [upload EXCEPT !.at = @ + 1, !.batch = batch]
        BY <3>1, Zenon DEF FindRefCode
      <4>2. PICK batch : \/ upload' = NextAffiliates
                         \/ upload' = [upload EXCEPT !.pc = "findAffiliates", !.batch = batch]
                         \/ upload' = [upload EXCEPT !.at = @ + 1, !.batch = batch]
        BY <4>1, Zenon
      <4> QED BY <1>1, <4>2 DEF UploadRecord
    <3>2. CASE FindAffiliates
      BY <1>1, <3>2 DEF FindAffiliates, UploadRecord
    <3>3. CASE SaveAffiliates \/ SaveAffiliatesFails
      BY <3>3 DEF SaveAffiliates, SaveAffiliatesFails
    <3> QED BY <1>7, <3>1, <3>2, <3>3
  <2> QED BY <1>2, <1>4, <2>1
<1> QED BY <1>3, <1>6, <1>7, Zenon DEF UploadStep

\* Alone is kept: what is taken up beside something else is put in raced.
LEMMA AloneNext ==
    ASSUME RegistrationAssumption, TypeOK, Shapes, Alone, [Next]_vars
    PROVE  Alone'
<1>1. raced \subseteq raced'
  BY RacedKept
<1>2. ASSUME NEW c \in Calls, CallStep(c)
      PROVE  Alone'
  <2>1. /\ upload' = upload /\ award' = award
        /\ \A d \in Calls \ {c} : call'[d] = call[d]
    BY <1>2, CallKeepsUpload, OthersKept
  <2>2. CASE call'[c].pc = "idle"
    BY <1>1, <2>1, <2>2 DEF Alone
  <2>3. CASE GoesOn(c)
    <3>1. call'[c].address = call[c].address /\ call[c].pc # "idle"
      BY <2>3 DEF GoesOn
    <3> QED BY <1>1, <2>1, <3>1 DEF Alone
  <2>4. CASE Starts(c)
    <3>1. \A d \in Calls \ {c} : call[d].pc # "idle" /\ call[d].address = call'[c].address
            => call'[c].address \in raced'
      BY <2>4 DEF Starts, WorksOn, Busy
    <3>2. call'[c].address \in RowAddresses(upload.file) => call'[c].address \in raced'
      BY <2>4 DEF Starts, WorksOn, Busy
    <3>3. \A i \in DOMAIN award : call'[c].address = award[i].address => call'[c].address \in raced'
      BY <2>4 DEF Starts, WorksOn, Busy
    <3> QED BY <1>1, <2>1, <3>1, <3>2, <3>3 DEF Alone
  <2> QED BY <1>2, <2>2, <2>3, <2>4, CallMoves
<1>3. CASE UploadStep
  <2>1. call' = call /\ award' = award
    BY <1>3, UploadKeepsCalls
  <2>2. CASE RowAddresses(upload'.file) \subseteq RowAddresses(upload.file)
    BY <1>1, <2>1, <2>2 DEF Alone
  <2>3. ASSUME NEW f \in Files, upload'.file = f, Upload(f)
        PROVE  Alone'
    <3>1. WorksOn(RowAddresses(f))
      BY <2>3 DEF Upload
    <3>2. \A c \in Calls : call[c].pc # "idle" /\ call[c].address \in RowAddresses(f)
            => call[c].address \in raced'
      BY <3>1 DEF WorksOn, Busy
    <3>3. \A i \in DOMAIN award : award[i].address \in RowAddresses(f)
            => award[i].address \in raced'
      BY <3>1 DEF WorksOn, Busy
    <3> QED BY <1>1, <2>1, <2>3, <3>2, <3>3 DEF Alone
  <2> QED BY <1>3, <2>2, <2>3, UploadFile
<1>4. CASE AwardStep
  <2>1. call' = call /\ upload' = upload
    BY <1>4, AwardKeepsOthers
  <2>2. CASE award' = NoAward
    <3>1. DOMAIN award' = {}
      BY <2>2 DEF NoAward
    <3> QED BY <1>1, <2>1, <3>1 DEF Alone
  <2>3. ASSUME NEW winners, ReadUsers(winners)
        PROVE  Alone'
    <3>1. WorksOn(winners) /\ \A i \in DOMAIN award' : award'[i].address \in winners
      BY <2>3 DEF ReadUsers
    <3>2. \A c \in Calls, i \in DOMAIN award' :
            call[c].pc # "idle" /\ call[c].address = award'[i].address
              => call[c].address \in raced'
      BY <3>1 DEF WorksOn, Busy
    <3>3. \A i \in DOMAIN award' :
            award'[i].address \in RowAddresses(upload.file) => award'[i].address \in raced'
      BY <3>1 DEF WorksOn, Busy
    <3> QED BY <1>1, <2>1, <3>2, <3>3 DEF Alone
  <2> QED BY <1>4, <2>2, <2>3 DEF AwardStep, SaveAwards, SaveAwardsFails
<1>5. CASE UNCHANGED vars
  BY <1>5 DEF Alone, vars, history
<1> QED BY <1>2, <1>3, <1>4, <1>5 DEF Next

-----------------------------------------------------------------------------
(* What was read is still so *)

\* What happens to a row that was there.
LEMMA RowChange ==
    ASSUME RegistrationAssumption, TypeOK, Shapes, [Next]_vars, NEW i \in DOMAIN users
    PROVE  \/ users'[i] = users[i]
           \/ \E c \in Calls, id \in ReferralIds \cup {None} :
                /\ SaveUser(c) /\ OverwriteUser(c, i, id)
                /\ users'[i].address = call[c].address /\ users'[i].referralId = id
                /\ {call[c].address, users[i].address} \subseteq rewritten'
           \/ \E c \in Calls, id \in ReferralIds :
                /\ SaveReferralId(c, id) /\ call[c].id = i
                /\ users'[i].address = call[c].address
           \/ SaveAwards /\ i \in DOMAIN award /\ users'[i] = award[i]
<1>1. ASSUME NEW c \in Calls, NEW id \in ReferralIds \cup {None}, InsertUser(c, id)
      PROVE  users'[i] = users[i]
  BY <1>1, InsertUserChange
<1>2. ASSUME NEW c \in Calls, NEW k \in DOMAIN users, NEW id \in ReferralIds \cup {None},
             OverwriteUser(c, k, id)
      PROVE  \/ users'[i] = users[i]
             \/ /\ OverwriteUser(c, i, id)
                /\ users'[i].address = call[c].address /\ users'[i].referralId = id
                /\ {call[c].address, users[i].address} \subseteq rewritten'
  <2>1. /\ Grows
        /\ DOMAIN users' = DOMAIN users
        /\ \A m \in DOMAIN users : m # k => users'[m] = users[m]
        /\ users'[k].address = call[c].address /\ users'[k].referralId = id
        /\ rewritten' = rewritten \cup {call[c].address, users[k].address}
    BY <1>2, OverwriteUserChange
  <2> QED BY <1>2, <2>1
<1>3. ASSUME NEW c \in Calls, NEW id \in ReferralIds, SaveReferralId(c, id)
      PROVE  users'[i] = users[i]
             \/ (call[c].id = i /\ users'[i].address = call[c].address)
  BY <1>3, SaveReferralIdChange
<1>4. ASSUME SaveUsers
      PROVE  users'[i] = users[i]
  BY <1>4, SaveUsersChange
<1>5. ASSUME SaveAwards
      PROVE  users'[i] = users[i] \/ (i \in DOMAIN award /\ users'[i] = award[i])
  BY <1>5, SaveAwardsChange
<1> QED BY <1>1, <1>2, <1>3, <1>4, <1>5, UsersChange, Zenon

\* Whose a row is that was not there.
LEMMA NewRow ==
    ASSUME RegistrationAssumption, TypeOK, Shapes, [Next]_vars,
           NEW i \in DOMAIN users' \ DOMAIN users
    PROVE  \/ \E c \in Calls, id \in ReferralIds \cup {None} :
                /\ SaveUser(c) /\ InsertUser(c, id) /\ i = Len(users) + 1
                /\ users'[i].address = call[c].address /\ users'[i].referralId = id
           \/ /\ SaveUsers /\ users'[i].address \in DOMAIN upload.batch
              /\ users'[i].referralId = upload.batch[users'[i].address]
<1>1. ASSUME NEW c \in Calls, NEW id \in ReferralIds \cup {None}, InsertUser(c, id)
      PROVE  /\ i = Len(users) + 1
             /\ users'[i].address = call[c].address /\ users'[i].referralId = id
  BY <1>1, InsertUserChange
<1>2. ASSUME NEW c \in Calls, NEW k \in DOMAIN users, NEW id \in ReferralIds \cup {None},
             OverwriteUser(c, k, id)
      PROVE  FALSE
  BY <1>2, OverwriteUserChange
<1>3. ASSUME NEW c \in Calls, NEW id \in ReferralIds, SaveReferralId(c, id)
      PROVE  FALSE
  BY <1>3, SaveReferralIdChange
<1>4. ASSUME SaveUsers
      PROVE  /\ users'[i].address \in DOMAIN upload.batch
             /\ users'[i].referralId = upload.batch[users'[i].address]
  BY <1>4, SaveUsersChange
<1>5. ASSUME SaveAwards
      PROVE  FALSE
  BY <1>5, SaveAwardsChange
<1>6. users' # users
  OBVIOUS
<1> QED BY <1>1, <1>2, <1>3, <1>4, <1>5, <1>6, UsersChange, Zenon

\* Somebody saves a row of the user a.
Saves(a) ==
    \/ \E c \in Calls : SaveUser(c) /\ call[c].address = a
    \/ \E c \in Calls, id \in ReferralIds : SaveReferralId(c, id) /\ call[c].address = a
    \/ SaveUsers /\ a \in DOMAIN upload.batch
    \/ SaveAwards /\ \E i \in DOMAIN award : award[i].address = a

\* A row is as it was, or its user's row is saved.
LEMMA RowSaved ==
    ASSUME RegistrationAssumption, TypeOK, Shapes, [Next]_vars, NEW i \in DOMAIN users'
    PROVE  (i \in DOMAIN users /\ users'[i] = users[i]) \/ Saves(users'[i].address)
<1>1. CASE i \in DOMAIN users
  BY <1>1, RowChange, Zenon DEF Saves
<1>2. CASE i \notin DOMAIN users
  BY <1>2, NewRow, Zenon DEF Saves
<1> QED BY <1>1, <1>2

\* Who is in the user table was there, or his row is saved.
LEMMA RegisteredSaved ==
    ASSUME RegistrationAssumption, TypeOK, Shapes, [Next]_vars, NEW a \in Registered'
    PROVE  a \in Registered \/ Saves(a)
<1>1. PICK i \in DOMAIN users' : users'[i].address = a
  BY DEF Registered
<1> QED BY <1>1, RowSaved DEF Registered

\* What is under way with a user not in raced is alone: nobody else saves a row
\* of his.
LEMMA NobodyElseSaves ==
    ASSUME RegistrationAssumption, TypeOK, Shapes, Alone, NEW a, a \notin raced, Saves(a)
    PROVE  /\ \A c \in Calls : call[c].pc # "idle" /\ call[c].address = a => CallStep(c)
           /\ a \in RowAddresses(upload.file) => UploadStep
           /\ (\E i \in DOMAIN award : award[i].address = a) => SaveAwards
<1>1. DOMAIN upload.batch \subseteq RowAddresses(upload.file)
  BY DEF Shapes, UploadShaped
<1>2. ASSUME NEW c \in Calls, call[c].pc # "idle", call[c].address = a, CallStep(c)
      PROVE  /\ \A d \in Calls : call[d].pc # "idle" /\ call[d].address = a => CallStep(d)
             /\ a \notin RowAddresses(upload.file)
             /\ ~\E i \in DOMAIN award : award[i].address = a
  BY <1>2 DEF Alone
<1>3. ASSUME NEW c \in Calls, SaveUser(c), call[c].address = a
      PROVE  call[c].pc # "idle" /\ CallStep(c)
  BY <1>3, SaveUserMoves DEF CallStep
<1>4. ASSUME NEW c \in Calls, NEW id \in ReferralIds, SaveReferralId(c, id), call[c].address = a
      PROVE  call[c].pc # "idle" /\ CallStep(c)
  BY <1>4 DEF CallStep, SaveReferralId
<1>5. CASE SaveUsers /\ a \in DOMAIN upload.batch
  <2>1. UploadStep
    BY <1>5 DEF UploadStep
  <2> QED BY <1>1, <1>5, <2>1 DEF Alone
<1>6. CASE SaveAwards /\ \E i \in DOMAIN award : award[i].address = a
  BY <1>6 DEF Alone
<1> QED BY <1>2, <1>3, <1>4, <1>5, <1>6 DEF Saves

\* A batch to be saved has just been looked up.
LEMMA BatchLookedUp ==
    ASSUME RegistrationAssumption, TypeOK, UploadStep
    PROVE  /\ upload'.pc = "saveUsers" =>
                users' = users /\ DOMAIN upload'.batch \cap Registered = {}
           /\ upload'.pc = "saveAffiliates" =>
                affiliate' = affiliate /\ \A a \in DOMAIN upload'.batch : affiliate[a] = None
<1>1. upload \in UploadRecord
  BY DEF TypeOK, UploadRecord
<1>2. NextAffiliates.pc \in {"idle", "affiliates"}
  BY <1>1 DEF NextAffiliates, NoUpload, UploadRecord
<1>3. \A n : NextUsers(n).pc \in {"users", "affiliates"}
  BY <1>1 DEF NextUsers, UploadRecord
<1>4. CASE \E f \in Files : Upload(f)
  <2>1. upload'.pc = "users"
    BY <1>4 DEF Upload, NoUpload
  <2> QED BY <2>1
<1>5. CASE SaveUsers \/ SaveUsersFails
  <2>1. upload'.pc \in {"users", "affiliates"}
    BY <1>3, <1>5 DEF SaveUsers, SaveUsersFails
  <2> QED BY <2>1
<1>6. CASE SaveAffiliates \/ SaveAffiliatesFails
  <2>1. upload'.pc \in {"idle", "affiliates"}
    BY <1>2, <1>6 DEF SaveAffiliates, SaveAffiliatesFails
  <2> QED BY <2>1
<1>7. CASE FindUsers
  <2>1. PICK n \in upload.at..Len(file) :
          LET rows == SubSeq(file, upload.at, n)
              batch == [a \in RowAddresses(rows) \ Registered |-> RefId(rows, a)]
          IN  upload' = IF DOMAIN batch = {} THEN NextUsers(n)
                        ELSE [upload EXCEPT !.pc = "saveUsers", !.at = n, !.batch = batch]
    BY <1>7 DEF FindUsers
  <2> DEFINE rows == SubSeq(file, upload.at, n)
             batch == [a \in RowAddresses(rows) \ Registered |-> RefId(rows, a)]
  <2>2. DOMAIN batch \cap Registered = {}
    OBVIOUS
  <2> HIDE DEF batch
  <2>3. upload' = NextUsers(n)
        \/ upload' = [upload EXCEPT !.pc = "saveUsers", !.at = n, !.batch = batch]
    BY <2>1, Zenon DEF batch
  <2>4. CASE upload' = NextUsers(n)
    <3>1. upload'.pc \in {"users", "affiliates"}
      BY <1>3, <2>4
    <3> QED BY <3>1
  <2>5. CASE upload' = [upload EXCEPT !.pc = "saveUsers", !.at = n, !.batch = batch]
    <3>1. upload'.pc = "saveUsers" /\ upload'.batch = batch
      BY <1>1, <2>5 DEF UploadRecord
    <3> QED BY <1>7, <2>2, <3>1 DEF FindUsers
  <2> QED BY <2>3, <2>4, <2>5
<1>8. CASE FindRefCode
  <2>1. \/ upload' = NextAffiliates
        \/ \E b : upload' = [upload EXCEPT !.pc = "findAffiliates", !.batch = b]
        \/ \E b, n : upload' = [upload EXCEPT !.at = n, !.batch = b]
    BY <1>8, Zenon DEF FindRefCode
  <2>2. upload.pc = "affiliates"
    BY <1>8 DEF FindRefCode
  <2>3. ASSUME NEW b, upload' = [upload EXCEPT !.pc = "findAffiliates", !.batch = b]
        PROVE  upload'.pc = "findAffiliates"
    BY <1>1, <2>3 DEF UploadRecord
  <2>4. ASSUME NEW b, NEW n, upload' = [upload EXCEPT !.at = n, !.batch = b]
        PROVE  upload'.pc = "affiliates"
    BY <1>1, <2>2, <2>4 DEF UploadRecord
  <2>5. upload'.pc \in {"idle", "affiliates", "findAffiliates"}
    BY <1>2, <2>1, <2>3, <2>4, Zenon
  <2> QED BY <2>5
<1>9. CASE FindAffiliates
  <2> DEFINE new == {a \in DOMAIN upload.batch : affiliate[a] = None}
             batch == Restrict(upload.batch, new)
  <2>1. upload' = NextAffiliates
        \/ upload' = [upload EXCEPT !.pc = "saveAffiliates", !.batch = batch]
    BY <1>9 DEF FindAffiliates
  <2>2. \A a \in DOMAIN batch : affiliate[a] = None
    BY DEF Restrict
  <2> HIDE DEF batch
  <2>3. CASE upload' = NextAffiliates
    <3>1. upload'.pc \in {"idle", "affiliates"}
      BY <1>2, <2>3
    <3> QED BY <3>1
  <2>4. CASE upload' = [upload EXCEPT !.pc = "saveAffiliates", !.batch = batch]
    <3>1. upload'.pc = "saveAffiliates" /\ upload'.batch = batch
      BY <1>1, <2>4 DEF UploadRecord
    <3> QED BY <1>9, <2>2, <3>1 DEF FindAffiliates
  <2> QED BY <2>1, <2>3, <2>4
<1> QED BY <1>4, <1>5, <1>6, <1>7, <1>8, <1>9, Zenon DEF UploadStep

\* StillNew is kept: only who is alone with a user may add him.
LEMMA StillNewNext ==
    ASSUME RegistrationAssumption, TypeOK, Shapes, Alone, StillNew, [Next]_vars
    PROVE  StillNew'
<1>1. raced \subseteq raced'
  BY RacedKept
<1>2. DOMAIN upload.batch \subseteq RowAddresses(upload.file)
  BY DEF Shapes, UploadShaped
<1>3. ASSUME NEW d \in Calls, ~CallStep(d), call[d].pc = "save", call[d].address \notin raced'
      PROVE  call[d].address \notin Registered'
  <2>1. call[d].address \notin Registered /\ call[d].address \notin raced
    BY <1>1, <1>3 DEF StillNew
  <2>2. ~Saves(call[d].address)
    BY <1>3, <2>1, NobodyElseSaves
  <2> QED BY <2>1, <2>2, RegisteredSaved
<1>4. ASSUME NEW d \in Calls, CallStep(d), call'[d].pc = "save"
      PROVE  call'[d].address \notin Registered'
  <2>1. Starts(d)
    BY <1>4, CallMoves DEF GoesOn
  <2>2. PICK a \in Addresses, code \in ReferralIds \cup {None} : Register(d, a, code)
    <3>1. ASSUME NEW i \in DOMAIN users, GenerateReferral(d, i)
          PROVE  FALSE
      <4>1. call'[d].pc = "generate"
        BY <3>1 DEF GenerateReferral, Idle, TypeOK
      <4> QED BY <1>4, <4>1
    <3> QED BY <1>4, <2>1, <3>1, SaveUserMoves, Zenon
            DEF CallStep, Starts, FindReferee, FindAffiliate, SaveAffiliate, SaveReferralId,
                ReferralIdTaken, CallFails
  <2>3. call'[d].address = a
    BY <2>2 DEF Register, Idle, TypeOK
  <2> QED BY <2>2, <2>3 DEF Register, Registered
<1>5. ASSUME NEW d \in Calls, call'[d].pc = "save", call'[d].address \notin raced'
      PROVE  call'[d].address \notin Registered'
  <2>1. CASE CallStep(d)
    BY <1>4, <1>5, <2>1
  <2>2. CASE ~CallStep(d)
    <3>1. call'[d] = call[d]
      BY <2>2, OthersKept, UploadKeepsCalls, AwardKeepsOthers DEF Next, vars
    <3> QED BY <1>3, <1>5, <2>2, <3>1
  <2> QED BY <2>1, <2>2
<1>6. (Batched("saveUsers"))' \cap Registered' \subseteq raced'
  <2>1. CASE UploadStep
    <3>1. users' = users => Registered' = Registered
      BY DEF Registered
    <3> QED BY <2>1, <3>1, BatchLookedUp DEF Batched
  <2>2. CASE ~UploadStep
    <3>1. upload' = upload
      BY <2>2, CallKeepsUpload, AwardKeepsOthers DEF Next, vars
    <3>2. (Batched("saveUsers"))' = Batched("saveUsers")
      BY <3>1 DEF Batched
    <3>3. Batched("saveUsers") \subseteq RowAddresses(upload.file)
      BY <1>2 DEF Batched
    <3>4. ASSUME NEW a \in Batched("saveUsers"), a \in Registered', a \notin raced
          PROVE  FALSE
      <4>1. a \notin Registered
        BY <3>4 DEF StillNew
      <4>2. ~Saves(a)
        BY <2>2, <3>3, <3>4, NobodyElseSaves
      <4> QED BY <3>4, <4>1, <4>2, RegisteredSaved
    <3> QED BY <1>1, <3>2, <3>4
  <2> QED BY <2>1, <2>2
<1> QED BY <1>5, <1>6 DEF StillNew

\* Who gets an affiliate.
LEMMA AffiliateChange ==
    ASSUME RegistrationAssumption, TypeOK, Shapes, [Next]_vars, NEW a \in Addresses
    PROVE  \/ affiliate'[a] = affiliate[a]
           \/ \E c \in Calls : /\ SaveAffiliate(c) /\ call[c].address = a
                               /\ affiliate'[a] = call[c].referee
           \/ /\ SaveAffiliates /\ a \in DOMAIN upload.batch
              /\ imported' = imported \cup DOMAIN upload.batch
<1>1. affiliate \in [Addresses -> Addresses \cup {None}]
  BY DEF TypeOK
<1>2. ASSUME NEW c \in Calls, SaveAffiliate(c)
      PROVE  \/ affiliate'[a] = affiliate[a]
             \/ call[c].address = a /\ affiliate'[a] = call[c].referee
  BY <1>1, <1>2 DEF SaveAffiliate
<1>3. ASSUME SaveAffiliates
      PROVE  \/ affiliate'[a] = affiliate[a]
             \/ a \in DOMAIN upload.batch /\ imported' = imported \cup DOMAIN upload.batch
  BY <1>3 DEF SaveAffiliates
<1>4. ASSUME NEW c \in Calls, CallStep(c)
      PROVE  SaveAffiliate(c) \/ affiliate' = affiliate
  BY <1>4, SaveUserMoves, Zenon DEF CallStep, Register, FindReferee, FindAffiliate,
           GenerateReferral, SaveReferralId, ReferralIdTaken, CallFails
<1>5. UploadStep => SaveAffiliates \/ affiliate' = affiliate
  BY Zenon DEF UploadStep, Upload, FindUsers, SaveUsers, SaveUsersFails, FindRefCode,
        FindAffiliates, SaveAffiliatesFails
<1> QED BY <1>2, <1>3, <1>4, <1>5, AwardKeepsOthers, Zenon DEF Next, vars

\* StillNone is kept.
LEMMA StillNoneNext ==
    ASSUME RegistrationAssumption, TypeOK, Shapes, Alone, StillNone, [Next]_vars
    PROVE  StillNone'
<1>1. raced \subseteq raced'
  BY RacedKept
<1>2. DOMAIN upload.batch \subseteq RowAddresses(upload.file)
      /\ RowAddresses(upload.file) \subseteq Addresses
  BY FileRows DEF Shapes, UploadShaped, file
<1>3. ASSUME NEW d \in Calls, call'[d] = call[d], call[d].pc = "saveAffiliate",
             call[d].address \notin raced', ~SaveAffiliate(d)
      PROVE  affiliate'[call[d].address] = None
  <2>1. /\ affiliate[call[d].address] = None /\ call[d].address \notin raced
        /\ call[d].address \in Addresses
    BY <1>1, <1>3 DEF StillNone, Shapes, CallShaped
  <2>2. call[d].address \notin DOMAIN upload.batch
    BY <1>2, <1>3, <2>1 DEF Alone
  <2>3. \A c \in Calls : SaveAffiliate(c) => call[c].address # call[d].address
    BY <1>3, <2>1 DEF Alone, SaveAffiliate
  <2> QED BY <2>1, <2>2, <2>3, AffiliateChange
<1>4. ASSUME NEW d \in Calls, CallStep(d), call'[d].pc = "saveAffiliate"
      PROVE  affiliate'[call'[d].address] = None
  <2>1. FindAffiliate(d) /\ call'[d].address = call[d].address
    BY <1>4, CallMoves DEF GoesOn, Starts
  <2>2. affiliate[call[d].address] # None => call'[d].pc = "idle"
    BY <2>1 DEF FindAffiliate, Idle, TypeOK
  <2> QED BY <1>4, <2>1, <2>2 DEF FindAffiliate
<1>5. ASSUME NEW d \in Calls, call'[d].pc = "saveAffiliate", call'[d].address \notin raced'
      PROVE  affiliate'[call'[d].address] = None
  <2>1. CASE CallStep(d)
    BY <1>4, <1>5, <2>1
  <2>2. CASE ~CallStep(d)
    <3>1. call'[d] = call[d]
      BY <2>2, OthersKept, UploadKeepsCalls, AwardKeepsOthers DEF Next, vars
    <3>2. ~SaveAffiliate(d)
      BY <2>2 DEF CallStep
    <3> QED BY <1>3, <1>5, <3>1, <3>2
  <2> QED BY <2>1, <2>2
<1>6. ASSUME NEW a \in (Batched("saveAffiliates"))' \ raced'
      PROVE  affiliate'[a] = None
  <2>1. CASE UploadStep
    BY <1>6, <2>1, BatchLookedUp DEF Batched
  <2>2. CASE ~UploadStep
    <3>1. upload' = upload
      BY <2>2, CallKeepsUpload, AwardKeepsOthers DEF Next, vars
    <3>2. ~SaveAffiliates
      BY <2>2 DEF UploadStep
    <3>3. a \in Batched("saveAffiliates") \ raced
      BY <1>1, <1>6, <3>1 DEF Batched
    <3>4. affiliate[a] = None /\ a \in RowAddresses(upload.file) /\ a \in Addresses
      BY <1>2, <3>3 DEF StillNone, Batched
    <3>5. \A c \in Calls : SaveAffiliate(c) => call[c].address # a
      BY <3>3, <3>4 DEF Alone, SaveAffiliate
    <3> QED BY <3>2, <3>4, <3>5, AffiliateChange
  <2> QED BY <2>1, <2>2
<1> QED BY <1>5, <1>6 DEF StillNone

\* A request for a referral id has read its row, or goes on.
LEMMA GenerateMoves ==
    ASSUME RegistrationAssumption, TypeOK, [Next]_vars, NEW d \in Calls,
           call'[d].pc = "generate"
    PROVE  \/ ~CallStep(d) /\ call'[d] = call[d]
           \/ /\ users' = users /\ call[d].pc = "generate"
              /\ call'[d].address = call[d].address
              /\ call'[d].id = call[d].id /\ call'[d].user = call[d].user
           \/ /\ users' = users /\ call'[d].id \in DOMAIN users
              /\ call'[d].user = users[call'[d].id]
              /\ call'[d].address = users[call'[d].id].address
<1>1. CASE ~CallStep(d)
  BY <1>1, OthersKept, UploadKeepsCalls, AwardKeepsOthers DEF Next, vars
<1>2. CASE ReferralIdTaken(d)
  <2>1. CallStep(d)
    BY <1>2 DEF CallStep
  <2> QED BY <1>2, <2>1, CallMoves DEF GoesOn, Starts, ReferralIdTaken
<1>3. ASSUME NEW i \in DOMAIN users, GenerateReferral(d, i)
      PROVE  /\ users' = users /\ call'[d].id = i /\ call'[d].user = users[i]
             /\ call'[d].address = users[i].address
  BY <1>3 DEF GenerateReferral, Idle, TypeOK
<1>4. ASSUME NEW a \in Addresses, NEW code, Register(d, a, code)
      PROVE  FALSE
  <2>1. call'[d].pc = "save"
    BY <1>4 DEF Register, Idle, TypeOK
  <2> QED BY <2>1
<1>5. ~SaveAffiliate(d) /\ ~CallFails(d) /\ \A id \in ReferralIds : ~SaveReferralId(d, id)
  BY ReturnsIdle
<1>6. ~FindReferee(d)
  BY FindRefereeMoves
<1>7. ~SaveUser(d) /\ ~FindAffiliate(d)
  <2>1. SaveUser(d) => call[d].pc = "save"
    BY SaveUserMoves
  <2> QED BY <2>1, CallMoves DEF GoesOn, Starts, FindAffiliate, CallStep
<1> QED BY <1>1, <1>2, <1>3, <1>4, <1>5, <1>6, <1>7 DEF CallStep

\* RowsAlone is kept: only who is alone with a user saves a row of his.
LEMMA RowsAloneNext ==
    ASSUME RegistrationAssumption, TypeOK, Shapes, Alone, OneUser, RowsAlone, [Next]_vars
    PROVE  RowsAlone'
<1>1. raced \subseteq raced' /\ DOMAIN award \subseteq DOMAIN users
  BY RacedKept, Rows
<1>2. ASSUME NEW d \in Calls, NEW i \in DOMAIN users', call'[d].pc = "generate",
             users'[i].address = call'[d].address, call'[d].address \notin raced'
      PROVE  i = call'[d].id
  <2>1. CASE ~CallStep(d) /\ call'[d] = call[d]
    <3>1. ~Saves(call[d].address)
      BY <1>1, <1>2, <2>1, NobodyElseSaves
    <3>2. i \in DOMAIN users /\ users'[i] = users[i]
      BY <1>2, <2>1, <3>1, RowSaved
    <3> QED BY <1>1, <1>2, <2>1, <3>2 DEF RowsAlone
  <2>2. CASE /\ users' = users /\ call[d].pc = "generate"
             /\ call'[d].address = call[d].address
             /\ call'[d].id = call[d].id
    BY <1>1, <1>2, <2>2 DEF RowsAlone
  <2>3. CASE /\ users' = users /\ call'[d].id \in DOMAIN users
             /\ call'[d].address = users[call'[d].id].address
    BY <1>1, <1>2, <2>3 DEF OneUser
  <2> QED BY <1>2, <2>1, <2>2, <2>3, GenerateMoves
<1>3. ASSUME NEW winners, ReadUsers(winners)
      PROVE  /\ users' = users /\ DOMAIN award' \subseteq DOMAIN users
             /\ \A i \in DOMAIN award' : award'[i] = users[i]
  BY <1>3 DEF ReadUsers
<1>4. ASSUME NEW i \in DOMAIN award', NEW j \in DOMAIN users',
             users'[j].address = award'[i].address, award'[i].address \notin raced'
      PROVE  j = i
  <2>1. CASE award' = award /\ ~SaveAwards
    <3>1. ~Saves(award[i].address)
      BY <1>1, <1>4, <2>1, NobodyElseSaves
    <3>2. j \in DOMAIN users /\ users'[j] = users[j]
      BY <1>4, <2>1, <3>1, RowSaved
    <3> QED BY <1>1, <1>4, <2>1, <3>2 DEF RowsAlone
  <2>2. ASSUME NEW winners, ReadUsers(winners)
        PROVE  j = i
    BY <1>1, <1>3, <1>4, <2>2 DEF OneUser
  <2>3. award' # NoAward
    BY <1>4 DEF NoAward
  <2> QED BY <2>1, <2>2, <2>3, AwardChange
<1>5. ASSUME NEW i \in DOMAIN award', NEW j \in DOMAIN award',
             award'[i].address = award'[j].address, award'[i].address \notin raced'
      PROVE  i = j
  <2>1. CASE award' = award
    BY <1>1, <1>5, <2>1 DEF RowsAlone
  <2>2. ASSUME NEW winners, ReadUsers(winners)
        PROVE  i = j
    BY <1>1, <1>3, <1>5, <2>2 DEF OneUser
  <2>3. award' # NoAward
    BY <1>5 DEF NoAward
  <2> QED BY <2>1, <2>2, <2>3, AwardChange
<1> QED BY <1>2, <1>4, <1>5 DEF RowsAlone

\* A row that is to be saved as a's and is another's, after a step.
LEMMA RenamedKept ==
    ASSUME RegistrationAssumption, TypeOK, Shapes, Renamed, [Next]_vars,
           NEW k \in DOMAIN users, NEW a,
           a # users[k].address => {a, users[k].address} \subseteq rewritten
    PROVE  a # users'[k].address => {a, users'[k].address} \subseteq rewritten'
<1>1. rewritten \subseteq rewritten'
  BY SentGrows
<1>2. CASE users'[k] = users[k]
  BY <1>1, <1>2
<1>3. CASE \E c \in Calls : /\ users'[k].address = call[c].address
                            /\ {call[c].address, users[k].address} \subseteq rewritten'
  BY <1>1, <1>3
<1>4. ASSUME NEW c \in Calls, NEW id \in ReferralIds, SaveReferralId(c, id), call[c].id = k,
             users'[k].address = call[c].address
      PROVE  a # users'[k].address => {a, users'[k].address} \subseteq rewritten'
  <2>1. call[c].address # users[k].address
          => {call[c].address, users[k].address} \subseteq rewritten
    BY <1>4, SaveReferralIdChange DEF Renamed
  <2> QED BY <1>1, <1>4, <2>1
<1>5. CASE SaveAwards /\ k \in DOMAIN award /\ users'[k] = award[k]
  <2>1. award[k].address # users[k].address
          => {award[k].address, users[k].address} \subseteq rewritten
    BY <1>5 DEF Renamed
  <2> QED BY <1>1, <1>5, <2>1
<1> QED BY <1>2, <1>3, <1>4, <1>5, RowChange

\* Renamed is kept.
LEMMA RenamedNext ==
    ASSUME RegistrationAssumption, TypeOK, Shapes, Renamed, [Next]_vars
    PROVE  Renamed'
<1>1. ASSUME NEW d \in Calls, call'[d].pc = "generate"
      PROVE  call'[d].address # users'[call'[d].id].address
               => {call'[d].address, users'[call'[d].id].address} \subseteq rewritten'
  <2>1. CASE call'[d] = call[d]
    <3> DEFINE k == call[d].id
               b == call[d].address
    <3>1. /\ k \in DOMAIN users
          /\ b # users[k].address => {b, users[k].address} \subseteq rewritten
      BY <1>1, <2>1 DEF Renamed, Shapes, CallShaped
    <3> HIDE DEF k, b
    <3>2. b # users'[k].address => {b, users'[k].address} \subseteq rewritten'
      BY <3>1, RenamedKept
    <3> QED BY <2>1, <3>2 DEF k, b
  <2>2. CASE /\ users' = users /\ call[d].pc = "generate"
             /\ call'[d].address = call[d].address
             /\ call'[d].id = call[d].id
    BY <2>2, SentGrows DEF Renamed
  <2>3. CASE users' = users /\ call'[d].address = users[call'[d].id].address
    BY <2>3
  <2> QED BY <1>1, <2>1, <2>2, <2>3, GenerateMoves
<1>2. ASSUME NEW i \in DOMAIN award'
      PROVE  award'[i].address # users'[i].address
               => {award'[i].address, users'[i].address} \subseteq rewritten'
  <2>1. CASE award' = award
    <3>1. /\ i \in DOMAIN users
          /\ award[i].address # users[i].address
               => {award[i].address, users[i].address} \subseteq rewritten
      BY <1>2, <2>1, Rows DEF Renamed
    <3>2. award[i].address # users'[i].address
            => {award[i].address, users'[i].address} \subseteq rewritten'
      BY <3>1, RenamedKept
    <3> QED BY <2>1, <3>2
  <2>2. ASSUME NEW winners, ReadUsers(winners)
        PROVE  award'[i].address = users'[i].address
    BY <1>2, <2>2 DEF ReadUsers
  <2>3. award' # NoAward
    BY <1>2 DEF NoAward
  <2> QED BY <2>1, <2>2, <2>3, AwardChange
<1> QED BY <1>1, <1>2 DEF Renamed

\* Who loses his row is in rewritten.
LEMMA RowLost ==
    ASSUME RegistrationAssumption, TypeOK, Shapes, Renamed, [Next]_vars, NEW k \in DOMAIN users
    PROVE  users'[k].address = users[k].address \/ users[k].address \in rewritten'
<1>1. users[k].address # users'[k].address
        => {users[k].address, users'[k].address} \subseteq rewritten'
  <2>1. users[k].address # users[k].address
          => {users[k].address, users[k].address} \subseteq rewritten
    OBVIOUS
  <2> QED BY <2>1, RenamedKept
<1> QED BY <1>1

\* The row of a user of whom nobody saves a row, after a step.
LEMMA AsReadKept ==
    ASSUME RegistrationAssumption, TypeOK, Shapes, Renamed, [Next]_vars,
           NEW k \in DOMAIN users, users[k].address \notin rewritten',
           ~Saves(users[k].address)
    PROVE  users'[k] = users[k]
<1>1. users'[k].address = users[k].address
  BY RowLost
<1>2. k \in DOMAIN users'
  BY TableGrows DEF Grows
<1> QED BY <1>1, <1>2, RowSaved

\* StillAsRead is kept: only who is alone with a user saves his row.
LEMMA StillAsReadNext ==
    ASSUME RegistrationAssumption, TypeOK, Shapes, Alone, Renamed, StillAsRead, [Next]_vars
    PROVE  StillAsRead'
<1>1. raced \subseteq raced' /\ rewritten \subseteq rewritten'
  BY RacedKept, SentGrows
<1>2. ASSUME NEW d \in Calls, call'[d].pc = "generate",
             call'[d].address \notin raced' \cup rewritten'
      PROVE  call'[d].user = users'[call'[d].id]
  <2>1. CASE ~CallStep(d) /\ call'[d] = call[d]
    <3>1. /\ call[d].user = users[call[d].id] /\ call[d].id \in DOMAIN users
          /\ call[d].user.address = call[d].address
          /\ call[d].address \notin raced
      BY <1>1, <1>2, <2>1 DEF StillAsRead, Shapes, CallShaped
    <3>2. ~Saves(call[d].address)
      BY <1>2, <2>1, <3>1, NobodyElseSaves
    <3>3. users'[call[d].id] = users[call[d].id]
      BY <1>2, <2>1, <3>1, <3>2, AsReadKept
    <3> QED BY <2>1, <3>1, <3>3
  <2>2. CASE /\ users' = users /\ call[d].pc = "generate"
             /\ call'[d].address = call[d].address
             /\ call'[d].id = call[d].id /\ call'[d].user = call[d].user
    BY <1>1, <1>2, <2>2 DEF StillAsRead
  <2>3. CASE users' = users /\ call'[d].user = users[call'[d].id]
    BY <2>3
  <2> QED BY <1>2, <2>1, <2>2, <2>3, GenerateMoves
<1>3. ASSUME NEW i \in DOMAIN award', award'[i].address \notin raced' \cup rewritten'
      PROVE  award'[i] = users'[i]
  <2>1. CASE award' = award /\ ~SaveAwards
    <3>1. award[i] = users[i] /\ i \in DOMAIN users /\ award[i].address \notin raced
      BY <1>1, <1>3, <2>1, Rows DEF StillAsRead
    <3>2. ~Saves(award[i].address)
      BY <1>3, <2>1, <3>1, NobodyElseSaves
    <3>3. users'[i] = users[i]
      BY <1>3, <2>1, <3>1, <3>2, AsReadKept
    <3> QED BY <2>1, <3>1, <3>3
  <2>2. ASSUME NEW winners, ReadUsers(winners)
        PROVE  award'[i] = users'[i]
    BY <1>3, <2>2 DEF ReadUsers
  <2>3. award' # NoAward
    BY <1>3 DEF NoAward
  <2> QED BY <2>1, <2>2, <2>3, AwardChange
<1> QED BY <1>2, <1>3 DEF StillAsRead

-----------------------------------------------------------------------------
(* The order of the first referral ids *)

\* What SaveUser makes of idOrder.
LEMMA HoldsRanks ==
    ASSUME RegistrationAssumption, TypeOK, NEW a \in Addresses, NEW id, Holds(a, id)
    PROVE  IF id = None THEN idOrder' = idOrder
           ELSE ToSet(idOrder') = ToSet(idOrder) \cup {a}
<1>1. {a} \in SUBSET Addresses
  OBVIOUS
<1> QED BY <1>1, FirstIdsAppends DEF Holds

\* What the batch saved makes of idOrder.
LEMMA BatchRanks ==
    ASSUME RegistrationAssumption, TypeOK, Shapes, SaveUsers
    PROVE  ToSet(idOrder') = ToSet(idOrder)
                \cup {a \in DOMAIN upload.batch : upload.batch[a] # None}
<1> DEFINE withId == {a \in DOMAIN upload.batch : upload.batch[a] # None}
<1>1. FirstIds(withId) /\ withId \in SUBSET Addresses
  BY FileRows DEF SaveUsers, Shapes, UploadShaped, file
<1> HIDE DEF withId
<1>2. ToSet(idOrder') = ToSet(idOrder) \cup withId
  BY <1>1, FirstIdsAppends
<1> QED BY <1>2 DEF withId

\* Whoever comes into idOrder has a row that is saved, and sent his referral
\* id, or an id, if that is by a registration.
LEMMA IdsChange ==
    ASSUME RegistrationAssumption, TypeOK, Shapes, [Next]_vars,
           NEW a \in ToSet(idOrder') \ ToSet(idOrder)
    PROVE  /\ Saves(a)
           /\ a \in Registered'
           /\ \A c \in Calls : SaveUser(c) => a \in brought' \cup rewritten'
<1>1. ASSUME NEW c \in Calls, SaveUser(c)
      PROVE  Saves(a) /\ a \in Registered' /\ a \in brought' \cup rewritten'
  <2>0. call[c].pc = "save" /\ call[c].address \in Addresses
    BY <1>1, SaveUserMoves DEF Shapes, CallShaped
  <2>1. ASSUME NEW id \in ReferralIds \cup {None}, InsertUser(c, id)
        PROVE  a = call[c].address /\ a \in Registered' /\ a \in brought' \cup rewritten'
    <3>1. id # None /\ a = call[c].address
      <4>1. Holds(call[c].address, id)
        BY <2>1 DEF InsertUser
      <4>2. IF id = None THEN idOrder' = idOrder
            ELSE ToSet(idOrder') = ToSet(idOrder) \cup {call[c].address}
        BY <2>0, <4>1, HoldsRanks
      <4> QED BY <4>2
    <3>2. a \in brought'
      BY <2>1, <3>1 DEF InsertUser
    <3>3. a \in Registered'
      <4>1. /\ Len(users) + 1 \in DOMAIN users'
            /\ users'[Len(users) + 1].address = call[c].address
        BY <2>1, InsertUserChange
      <4> QED BY <3>1, <4>1 DEF Registered
    <3> QED BY <3>1, <3>2, <3>3
  <2>2. ASSUME NEW k \in DOMAIN users, NEW id \in ReferralIds \cup {None},
               OverwriteUser(c, k, id)
        PROVE  a = call[c].address /\ a \in Registered' /\ a \in brought' \cup rewritten'
    <3>1. IF id = None THEN idOrder' = idOrder
          ELSE ToSet(idOrder') = ToSet(idOrder) \cup {call[c].address}
      <4>1. Holds(call[c].address, id)
        BY <2>2 DEF OverwriteUser
      <4> QED BY <2>0, <4>1, HoldsRanks
    <3>2. /\ k \in DOMAIN users' /\ users'[k].address = call[c].address
          /\ rewritten' = rewritten \cup {call[c].address, users[k].address}
      BY <2>2, OverwriteUserChange
    <3> QED BY <3>1, <3>2 DEF Registered
  <2> QED BY <1>1, <2>1, <2>2, SaveUserSaves DEF Saves
<1>2. ASSUME NEW c \in Calls, NEW id \in ReferralIds, SaveReferralId(c, id)
      PROVE  Saves(a) /\ a \in Registered'
  <2>1. FirstIds({call[c].address}) /\ {call[c].address} \in SUBSET Addresses
    BY <1>2, SaveReferralIdChange
  <2>2. a = call[c].address
    BY <2>1, FirstIdsAppends
  <2>3. call[c].id \in DOMAIN users' /\ users'[call[c].id].address = a
    BY <1>2, <2>2, SaveReferralIdChange
  <2> QED BY <1>2, <2>2, <2>3 DEF Saves, Registered
<1>3. ASSUME SaveUsers
      PROVE  Saves(a) /\ a \in Registered'
  <2>1. a \in DOMAIN upload.batch
    BY <1>3, BatchRanks
  <2>2. \E i \in DOMAIN users' : users'[i].address = a
    BY <1>3, <2>1, SaveUsersChange
  <2> QED BY <1>3, <2>1, <2>2 DEF Saves, Registered
<1>4. ASSUME NEW c \in Calls, CallStep(c)
      PROVE  idOrder' = idOrder \/ SaveUser(c) \/ \E id \in ReferralIds : SaveReferralId(c, id)
  BY <1>4, Zenon DEF CallStep, Register, FindReferee, FindAffiliate, SaveAffiliate,
            GenerateReferral, ReferralIdTaken, CallFails, history
<1>5. UploadStep => idOrder' = idOrder \/ SaveUsers
  BY Zenon DEF UploadStep, Upload, FindUsers, SaveUsersFails, FindRefCode, FindAffiliates,
            SaveAffiliates, SaveAffiliatesFails, history
<1>6. idOrder' # idOrder
  OBVIOUS
<1> QED BY <1>1, <1>2, <1>3, <1>4, <1>5, <1>6, AwardKeepsOthers, Zenon DEF Next, vars, history

\* The order of those who are in idOrder is kept; others come behind them.
LEMMA IdOrderKept ==
    ASSUME RegistrationAssumption, TypeOK, Shapes, [Next]_vars
    PROVE  /\ Len(idOrder) \in Nat /\ DOMAIN idOrder = 1..Len(idOrder)
           /\ Len(idOrder') \in Nat /\ DOMAIN idOrder' = 1..Len(idOrder')
           /\ ToSet(idOrder) \subseteq ToSet(idOrder')
           /\ Len(idOrder) <= Len(idOrder')
           /\ \A k \in DOMAIN idOrder : idOrder'[k] = idOrder[k]
           /\ \A k \in DOMAIN idOrder' \ DOMAIN idOrder : idOrder'[k] \notin ToSet(idOrder)
<1>1. Len(idOrder) \in Nat /\ DOMAIN idOrder = 1..Len(idOrder)
  BY LenProperties DEF TypeOK
<1>2. CASE idOrder' = idOrder
  BY <1>1, <1>2
<1>3. ASSUME NEW A \in SUBSET Addresses, FirstIds(A)
      PROVE  /\ Len(idOrder') \in Nat /\ DOMAIN idOrder' = 1..Len(idOrder')
             /\ ToSet(idOrder) \subseteq ToSet(idOrder')
             /\ Len(idOrder) <= Len(idOrder')
             /\ \A k \in DOMAIN idOrder : idOrder'[k] = idOrder[k]
             /\ \A k \in DOMAIN idOrder' \ DOMAIN idOrder : idOrder'[k] \notin ToSet(idOrder)
  BY <1>3, FirstIdsAppends, LenProperties
<1> QED BY <1>1, <1>2, <1>3, HistoryGrows DEF IdsGrow

\* Ranked is kept.
LEMMA RankedNext ==
    ASSUME RegistrationAssumption, TypeOK, Shapes, Alone, Renamed, Ranked, [Next]_vars
    PROVE  Ranked'
<1>1. /\ raced \subseteq raced' /\ ToSet(idOrder) \subseteq ToSet(idOrder')
      /\ brought \subseteq brought' /\ rewritten \subseteq rewritten'
  BY RacedKept, IdOrderKept, SentGrows
<1>2. ToSet(idOrder') \subseteq Registered' \cup rewritten'
  <2> SUFFICES ASSUME NEW a \in ToSet(idOrder')
               PROVE  a \in Registered' \cup rewritten'
    OBVIOUS
  <2>1. CASE a \in Registered
    <3>1. PICK k \in DOMAIN users : users[k].address = a
      BY <2>1 DEF Registered
    <3>2. k \in DOMAIN users'
      BY TableGrows DEF Grows
    <3> QED BY <3>1, <3>2, RowLost DEF Registered
  <2>2. CASE a \in ToSet(idOrder) /\ a \notin Registered
    BY <1>1, <2>2 DEF Ranked
  <2>3. CASE a \notin ToSet(idOrder)
    BY <2>3, IdsChange
  <2> QED BY <2>1, <2>2, <2>3
<1>3. ASSUME NEW i \in DOMAIN users', users'[i].referralId # None
      PROVE  users'[i].address \in ToSet(idOrder')
  <2>1. CASE i \in DOMAIN users
    <3>1. CASE users'[i] = users[i]
      BY <1>1, <1>3, <2>1, <3>1 DEF Ranked
    <3>2. ASSUME NEW c \in Calls, NEW id \in ReferralIds \cup {None},
                 SaveUser(c), OverwriteUser(c, i, id),
                 users'[i].address = call[c].address, users'[i].referralId = id
          PROVE  users'[i].address \in ToSet(idOrder')
      <4>1. Holds(call[c].address, id) /\ call[c].address \in Addresses
        BY <3>2, SentTyped DEF OverwriteUser
      <4>2. IF id = None THEN idOrder' = idOrder
            ELSE ToSet(idOrder') = ToSet(idOrder) \cup {call[c].address}
        BY <4>1, HoldsRanks
      <4> QED BY <1>3, <3>2, <4>2
    <3>3. ASSUME NEW c \in Calls, NEW id \in ReferralIds, SaveReferralId(c, id),
                 users'[i].address = call[c].address
          PROVE  users'[i].address \in ToSet(idOrder')
      <4>1. FirstIds({call[c].address}) /\ {call[c].address} \in SUBSET Addresses
        BY <3>3, SaveReferralIdChange
      <4>2. ToSet(idOrder') = ToSet(idOrder) \cup {call[c].address}
        BY <4>1, FirstIdsAppends
      <4> QED BY <3>3, <4>2
    <3>4. CASE SaveAwards /\ i \in DOMAIN award /\ users'[i] = award[i]
      BY <1>1, <1>3, <3>4 DEF Ranked
    <3> QED BY <2>1, <3>1, <3>2, <3>3, <3>4, RowChange
  <2>2. CASE i \notin DOMAIN users
    <3>1. ASSUME NEW c \in Calls, NEW id \in ReferralIds \cup {None},
                 SaveUser(c), InsertUser(c, id),
                 users'[i].address = call[c].address, users'[i].referralId = id
          PROVE  users'[i].address \in ToSet(idOrder')
      <4>1. Holds(call[c].address, id) /\ call[c].address \in Addresses
        BY <3>1, SentTyped DEF InsertUser
      <4> QED BY <1>3, <3>1, <4>1, HoldsRanks
    <3>2. ASSUME SaveUsers, users'[i].address \in DOMAIN upload.batch,
                 users'[i].referralId = upload.batch[users'[i].address]
          PROVE  users'[i].address \in ToSet(idOrder')
      BY <1>3, <3>2, BatchRanks
    <3> QED BY <2>2, <3>1, <3>2, NewRow
  <2> QED BY <2>1, <2>2
<1>4. ASSUME NEW i \in DOMAIN award', award'[i].referralId # None
      PROVE  award'[i].address \in ToSet(idOrder')
  <2>1. CASE award' = award
    BY <1>1, <1>4, <2>1 DEF Ranked
  <2>2. ASSUME NEW winners, ReadUsers(winners)
        PROVE  i \in DOMAIN users /\ award'[i] = users[i]
    BY <1>4, <2>2 DEF ReadUsers
  <2>3. award' # NoAward
    BY <1>4 DEF NoAward
  <2> QED BY <1>1, <1>4, <2>1, <2>2, <2>3, AwardChange DEF Ranked
<1>5. ASSUME NEW d \in Calls, call'[d].pc \in {"affiliate", "saveAffiliate"}
      PROVE  call'[d].referee \in ToSet(idOrder')
  <2>1. CASE call'[d] = call[d]
    BY <1>1, <1>5, <2>1 DEF Ranked
  <2>2. CASE CallStep(d)
    <3>1. FindReferee(d) \/ (call'[d].referee = call[d].referee /\ call[d].pc = "affiliate")
      BY <1>5, <2>2, CallMoves DEF GoesOn, Starts
    <3>2. CASE FindReferee(d)
      <4>1. call'[d].referee \in Referees(call[d].referralCode) /\ call[d].referralCode # None
        BY <1>5, <3>2, FindRefereeMoves DEF Shapes, CallShaped, FindReferee
      <4> QED BY <1>1, <4>1 DEF Referees, Ranked
    <3> QED BY <1>1, <3>1, <3>2 DEF Ranked
  <2> QED BY <2>1, <2>2, OthersKept, UploadKeepsCalls, AwardKeepsOthers DEF Next, vars
<1>6. ASSUME NEW d \in Calls, call'[d].pc \in RegisterPcs,
             call'[d].address \notin raced' \cup brought' \cup rewritten',
             call'[d].address \in ToSet(idOrder')
      PROVE  FALSE
  <2> DEFINE a == call'[d].address
  <2>1. CASE ~CallStep(d) /\ call'[d] = call[d]
    <3>1. a \notin ToSet(idOrder) /\ a \notin raced /\ call[d].pc # "idle"
      BY <1>1, <1>6, <2>1 DEF Ranked, RegisterPcs
    <3>2. Saves(a)
      BY <1>6, <3>1, IdsChange
    <3> QED BY <2>1, <3>1, <3>2, NobodyElseSaves
  <2>2. CASE GoesOn(d)
    <3>1. call[d].pc \in RegisterPcs /\ call[d].address = a
      BY <1>6, <2>2 DEF GoesOn, RegisterPcs
    <3>2. a \notin ToSet(idOrder)
      BY <1>1, <1>6, <3>1 DEF Ranked
    <3>3. ~SaveUser(d)
      BY <1>6, <3>2, IdsChange
    <3>4. idOrder' = idOrder
      BY <1>6, <2>2, <3>3 DEF GoesOn, RegisterPcs, FindReferee, FindAffiliate, history
    <3> QED BY <1>6, <3>2, <3>4
  <2>3. CASE CallStep(d) /\ Starts(d)
    <3>1. ASSUME NEW b \in Addresses, NEW code, Register(d, b, code)
          PROVE  FALSE
      <4>1. a = b /\ idOrder' = idOrder /\ b \notin Registered
        BY <3>1 DEF Register, Idle, TypeOK
      <4> QED BY <1>1, <1>6, <4>1 DEF Ranked
    <3>2. ASSUME NEW i \in DOMAIN users, GenerateReferral(d, i)
          PROVE  FALSE
      <4>1. call'[d].pc = "generate"
        BY <3>2 DEF GenerateReferral, Idle, TypeOK
      <4> QED BY <1>6, <4>1 DEF RegisterPcs
    <3> QED BY <2>3, <3>1, <3>2, SaveUserMoves, Zenon
            DEF CallStep, Starts, FindReferee, FindAffiliate, SaveAffiliate, SaveReferralId,
                ReferralIdTaken, CallFails
  <2>4. CASE call'[d].pc = "idle"
    BY <1>6, <2>4 DEF RegisterPcs
  <2> QED BY <2>1, <2>2, <2>3, <2>4, CallMoves, OthersKept, UploadKeepsCalls, AwardKeepsOthers
          DEF Next, vars
<1> QED BY <1>2, <1>3, <1>4, <1>5, <1>6 DEF Ranked

-----------------------------------------------------------------------------
(* The invariants of the runs *)

\* OneUser is kept: of two rows of a user, one would have been saved while the
\* other was there.
LEMMA OneUserNext ==
    ASSUME RegistrationAssumption, TypeOK, Shapes, StillNew, RowsAlone, OneUser, [Next]_vars
    PROVE  OneUser'
<1>1. raced \subseteq raced' /\ DOMAIN award \subseteq DOMAIN users
  BY RacedKept, Rows
<1> SUFFICES ASSUME NEW i \in DOMAIN users', NEW j \in DOMAIN users', i # j,
                    users'[i].address = users'[j].address, users'[i].address \notin raced
             PROVE  FALSE
  BY <1>1 DEF OneUser
<1> DEFINE a == users'[i].address
<1>2. ASSUME users' = users
      PROVE  FALSE
  BY <1>2 DEF OneUser
<1>3. ASSUME NEW c \in Calls, NEW id \in ReferralIds \cup {None}, InsertUser(c, id)
      PROVE  FALSE
  <2>1. /\ Grows
        /\ \A k \in DOMAIN users : users'[k] = users[k]
        /\ \A k \in DOMAIN users' \ DOMAIN users :
             /\ k = Len(users) + 1
             /\ users'[k].address = call[c].address /\ users'[k].referralId = id
        /\ Len(users) + 1 \in DOMAIN users' \ DOMAIN users
    BY <1>3, InsertUserChange
  <2>2. call[c].address \notin raced => call[c].address \notin Registered
    BY <1>3 DEF StillNew, InsertUser
  <2> QED BY <2>1, <2>2 DEF OneUser, Registered
<1>4. ASSUME NEW c \in Calls, NEW k \in DOMAIN users, NEW id \in ReferralIds \cup {None},
             OverwriteUser(c, k, id)
      PROVE  FALSE
  <2>1. /\ Grows
        /\ DOMAIN users' = DOMAIN users
        /\ \A m \in DOMAIN users : m # k => users'[m] = users[m]
        /\ users'[k].address = call[c].address /\ users'[k].referralId = id
        /\ rewritten' = rewritten \cup {call[c].address, users[k].address}
    BY <1>4, OverwriteUserChange
  <2>2. call[c].address \notin raced => call[c].address \notin Registered
    BY <1>4 DEF StillNew, OverwriteUser
  <2> QED BY <2>1, <2>2 DEF OneUser, Registered
<1>5. ASSUME NEW c \in Calls, NEW id \in ReferralIds, SaveReferralId(c, id)
      PROVE  FALSE
  <2>1. /\ DOMAIN users' = DOMAIN users /\ call[c].pc = "generate"
        /\ \A m \in DOMAIN users : m # call[c].id => users'[m] = users[m]
        /\ users'[call[c].id].address = call[c].address
    BY <1>5, SaveReferralIdChange
  <2> QED BY <2>1 DEF OneUser, RowsAlone
<1>6. ASSUME SaveUsers
      PROVE  FALSE
  <2>1. \A k \in DOMAIN users' :
          IF k \in DOMAIN users THEN users'[k] = users[k]
          ELSE users'[k].address \in DOMAIN upload.batch
    BY <1>6, SaveUsersChange
  <2>2. DOMAIN upload.batch \cap Registered \subseteq raced
    BY <1>6 DEF StillNew, Batched, SaveUsers
  <2>3. CASE i \in DOMAIN users /\ j \in DOMAIN users
    BY <2>1, <2>3 DEF OneUser
  <2>4. CASE i \notin DOMAIN users /\ j \notin DOMAIN users
    BY <1>6, <2>4, SaveUsersChange
  <2> QED BY <2>1, <2>2, <2>3, <2>4 DEF Registered
<1>7. ASSUME SaveAwards
      PROVE  FALSE
  <2>1. /\ DOMAIN users' = DOMAIN users
        /\ \A m \in DOMAIN users : users'[m] = IF m \in DOMAIN award THEN award[m] ELSE users[m]
    BY <1>7, SaveAwardsChange
  <2> QED BY <1>1, <2>1 DEF OneUser, RowsAlone
<1> QED BY <1>2, <1>3, <1>4, <1>5, <1>6, <1>7, UsersChange, Zenon

\* ReferrersFirst is kept: whoever comes into idOrder comes behind his referee.
LEMMA ReferrersFirstNext ==
    ASSUME RegistrationAssumption, TypeOK, Shapes, Ranked, ReferrersFirst, [Next]_vars
    PROVE  ReferrersFirst'
<1> DEFINE RankNow(x) == {k \in DOMAIN idOrder' : idOrder'[k] = x}
<1> SUFFICES ASSUME NEW a \in Addresses, affiliate'[a] # None,
                    a \notin raced' \cup imported' \cup brought' \cup rewritten'
             PROVE  /\ RankNow(affiliate'[a]) # {}
                    /\ \A j \in RankNow(affiliate'[a]), k \in RankNow(a) : j < k
  BY DEF ReferrersFirst, Rank
<1>1. /\ raced \subseteq raced' /\ imported \subseteq imported'
      /\ brought \subseteq brought' /\ rewritten \subseteq rewritten'
  <2>1. UploadStep => imported \subseteq imported'
    BY Zenon DEF UploadStep, Upload, FindUsers, SaveUsers, SaveUsersFails, FindRefCode,
          FindAffiliates, SaveAffiliates, SaveAffiliatesFails, history
  <2>2. ~UploadStep => imported' = imported
    BY CallKeepsUpload, AwardKeepsOthers, Zenon DEF Next, vars, history
  <2> QED BY <2>1, <2>2, RacedKept, SentGrows
<1>2. CASE affiliate'[a] = affiliate[a]
  <2> DEFINE b == affiliate[a]
  <2>1. /\ b # None
        /\ Rank(b) # {}
        /\ \A j \in Rank(b), k \in Rank(a) : j < k
    BY <1>1, <1>2 DEF ReferrersFirst
  <2>2. b \in ToSet(idOrder)
    BY <2>1 DEF Rank, ToSet
  <2> HIDE DEF b
  <2>3. ASSUME NEW j \in DOMAIN idOrder', idOrder'[j] = b
        PROVE  j \in DOMAIN idOrder /\ idOrder[j] = b
    <3>1. j \in DOMAIN idOrder
      BY <2>2, <2>3, IdOrderKept
    <3>2. idOrder'[j] = idOrder[j]
      BY <3>1, IdOrderKept
    <3> QED BY <2>3, <3>1, <3>2
  <2>4. \E j \in DOMAIN idOrder' : idOrder'[j] = b
    <3>1. PICK j \in DOMAIN idOrder : idOrder[j] = b
      BY <2>1 DEF Rank
    <3>2. j \in DOMAIN idOrder' /\ idOrder'[j] = idOrder[j]
      <4>1. /\ Len(idOrder) \in Nat /\ DOMAIN idOrder = 1..Len(idOrder)
            /\ Len(idOrder') \in Nat /\ DOMAIN idOrder' = 1..Len(idOrder')
            /\ Len(idOrder) <= Len(idOrder')
        BY IdOrderKept
      <4>2. j \in DOMAIN idOrder'
        BY <4>1
      <4>3. idOrder'[j] = idOrder[j]
        BY IdOrderKept
      <4> QED BY <4>2, <4>3
    <3> QED BY <3>1, <3>2
  <2>5. ASSUME NEW j \in DOMAIN idOrder', NEW k \in DOMAIN idOrder',
               idOrder'[j] = b, idOrder'[k] = a
        PROVE  j < k
    <3>1. j \in DOMAIN idOrder /\ idOrder[j] = b
      BY <2>3, <2>5
    <3>2. CASE k \in DOMAIN idOrder
      <4>1. idOrder[k] = a
        BY <2>5, <3>2, IdOrderKept
      <4> QED BY <2>1, <3>1, <3>2, <4>1 DEF Rank
    <3>3. CASE k \notin DOMAIN idOrder
      <4>1. /\ Len(idOrder) \in Nat /\ DOMAIN idOrder = 1..Len(idOrder)
            /\ Len(idOrder') \in Nat /\ DOMAIN idOrder' = 1..Len(idOrder')
        BY IdOrderKept
      <4> QED BY <3>1, <3>3, <4>1
    <3> QED BY <3>2, <3>3
  <2>6. affiliate'[a] = b
    BY <1>2 DEF b
  <2> QED BY <2>4, <2>5, <2>6
<1>3. ASSUME NEW c \in Calls, SaveAffiliate(c), call[c].address = a,
             affiliate'[a] = call[c].referee
      PROVE  /\ RankNow(affiliate'[a]) # {}
             /\ \A j \in RankNow(affiliate'[a]), k \in RankNow(a) : j < k
  <2>1. idOrder' = idOrder
    BY <1>3 DEF SaveAffiliate, history
  <2>2. a \notin ToSet(idOrder) /\ call[c].referee \in ToSet(idOrder)
    BY <1>1, <1>3 DEF Ranked, SaveAffiliate, RegisterPcs
  <2> QED BY <1>3, <2>1, <2>2 DEF Rank, ToSet
<1>4. CASE /\ SaveAffiliates /\ a \in DOMAIN upload.batch
           /\ imported' = imported \cup DOMAIN upload.batch
  BY <1>4
<1> QED BY <1>2, <1>3, <1>4, AffiliateChange

\* The invariant holds in the beginning: there are users with referral ids, and
\* nothing is under way.
LEMMA IInvInit ==
    ASSUME RegistrationAssumption, Init
    PROVE  IInv
<1> DEFINE Row == [address : Addresses, referralId : ReferralIds]
<1>1. Known \in Seq(Row) /\ users = Known
  BY DEF RegistrationAssumption, Init
<1>2. /\ DOMAIN Known = 1..Len(Known) /\ Len(Known) \in Nat
      /\ \A i \in DOMAIN Known : Known[i] \in Row
  <2> HIDE DEF Row
  <2> QED BY <1>1, LenProperties, ElementOfSeq
<1>3. \A i \in DOMAIN Known : /\ Known[i] \in User
                              /\ Known[i].address \in Addresses
                              /\ Known[i].referralId # None
  BY <1>2 DEF User, RegistrationAssumption
<1>4. users \in Seq(User)
  <2>1. Row \subseteq User
    BY DEF User
  <2> HIDE DEF Row
  <2> QED BY <1>1, <2>1, SeqMonotonic
<1>5. idOrder \in Seq(Addresses) /\ DOMAIN idOrder = DOMAIN Known
      /\ \A i \in DOMAIN Known : idOrder[i] = Known[i].address
  <2>1. idOrder = [i \in 1..Len(Known) |-> Known[i].address]
    BY <1>2 DEF Init
  <2> QED BY <1>2, <1>3, <2>1
<1>6. call = [c \in Calls |-> Idle] /\ \A c \in Calls : call[c] = Idle /\ call[c].pc = "idle"
  BY DEF Init, Idle
<1>7. Idle \in CallRecord
  BY DEF Idle, CallRecord, RegistrationAssumption
<1>8. upload = NoUpload /\ NoUpload \in UploadRecord /\ UploadShaped(NoUpload)
      /\ NoUpload.pc = "idle" /\ RowAddresses(NoUpload.file) = {}
  <2>1. NoUpload.pc = "idle" /\ RowAddresses(NoUpload.file) = {}
    BY DEF NoUpload, RowAddresses
  <2> QED BY <2>1, NoUploadTyped, RegistrationAssumption DEF Init
<1>9. award = NoAward /\ award \in [DOMAIN award -> User] /\ DOMAIN award = {}
  BY DEF Init, NoAward
<1>10. affiliate = [a \in Addresses |-> None] /\ raced = {} /\ imported = {}
       /\ brought = {} /\ rewritten = {}
  BY DEF Init
<1>11. TypeOK
  <2>1. call \in [Calls -> CallRecord]
    BY <1>6, <1>7
  <2> QED BY <1>4, <1>5, <1>8, <1>9, <1>10, <2>1 DEF TypeOK, CallRecord, UploadRecord
<1>12. Shapes
  BY <1>6, <1>8 DEF Shapes, CallShaped
<1>13. Alone
  BY <1>6, <1>9 DEF Alone
<1>14. StillNew /\ StillNone /\ RowsAlone /\ Renamed /\ StillAsRead
  BY <1>6, <1>8, <1>9 DEF StillNew, StillNone, RowsAlone, Renamed, StillAsRead, Batched
<1>15. Ranked
  <2>1. ToSet(idOrder) = Registered
    BY <1>1, <1>5 DEF ToSet, Registered
  <2> QED BY <1>1, <1>6, <1>9, <2>1 DEF Ranked, Registered, RegisterPcs
<1>16. OneUser
  BY <1>1 DEF RegistrationAssumption, OneUser
<1>17. ReferrersFirst
  BY <1>10 DEF ReferrersFirst
<1> QED BY <1>11, <1>12, <1>13, <1>14, <1>15, <1>16, <1>17 DEF IInv

\* IInv is inductive.
LEMMA IInvNext ==
    ASSUME RegistrationAssumption, IInv, [Next]_vars
    PROVE  IInv'
<1>1. /\ TypeOK /\ Shapes /\ Alone /\ StillNew /\ StillNone /\ RowsAlone /\ Renamed
      /\ StillAsRead /\ Ranked /\ OneUser /\ ReferrersFirst
  BY DEF IInv
<1>2. TypeOK' /\ Shapes'
  BY <1>1, TypeOKNext, ShapesNext
<1>3. Alone'
  BY <1>1, AloneNext
<1>4. StillNew' /\ StillNone' /\ RowsAlone' /\ Renamed' /\ StillAsRead'
  BY <1>1, StillNewNext, StillNoneNext, RowsAloneNext, RenamedNext, StillAsReadNext
<1>5. Ranked' /\ OneUser' /\ ReferrersFirst'
  BY <1>1, RankedNext, OneUserNext, ReferrersFirstNext
<1> QED BY <1>2, <1>3, <1>4, <1>5 DEF IInv

\* IInv holds throughout.
THEOREM Invariance == Spec => []IInv
<1>1. Init => IInv
  BY IInvInit, RegistrationAssumption
<1>2. IInv /\ [Next]_vars => IInv'
  BY IInvNext, RegistrationAssumption
<1> QED BY <1>1, <1>2, PTL DEF Spec

\* The tables, the requests, the upload and the awards keep their shapes.
THEOREM TypeCorrect == Spec => []TypeOK
<1>1. IInv => TypeOK
  BY DEF IInv
<1> QED BY <1>1, Invariance, PTL

\* An address has one user, whatever a client sends (create, saveUsers,
\* createReferralIdIfNotExistsAndSave, updateUserPoints).
THEOREM UsersAreUnique == Spec => []OneUser
<1>1. IInv => OneUser
  BY DEF IInv
<1> QED BY <1>1, Invariance, PTL

\* Who refers has a referral id before who is referred has, whoever keeps to the
\* referral ids the program generates (create, createReferralIdIfNotExistsAndSave).
THEOREM ReferrersAreFirst == Spec => []ReferrersFirst
<1>1. IInv => ReferrersFirst
  BY DEF IInv
<1> QED BY <1>1, Invariance, PTL

\* Who referred a user does not change (create, saveAffiliates).
THEOREM AffiliatesAreKept == Spec => AffiliateKept
<1>1. ASSUME IInv, [Next]_vars, NEW a \in Addresses \ raced', affiliate[a] # None
      PROVE  affiliate'[a] = affiliate[a]
  <2>1. raced \subseteq raced'
    BY <1>1, RacedKept, RegistrationAssumption DEF IInv
  <2>2. ASSUME NEW c \in Calls, SaveAffiliate(c), call[c].address = a
        PROVE  FALSE
    BY <1>1, <2>1, <2>2 DEF IInv, StillNone, SaveAffiliate
  <2>3. ASSUME SaveAffiliates, a \in DOMAIN upload.batch
        PROVE  FALSE
    BY <1>1, <2>1, <2>3 DEF IInv, StillNone, Batched, SaveAffiliates
  <2> QED BY <1>1, <2>2, <2>3, AffiliateChange, RegistrationAssumption DEF IInv
<1>2. IInv /\ [Next]_vars =>
        [\A a \in Addresses \ raced' :
           affiliate[a] # None => affiliate'[a] = affiliate[a]]_vars
  BY <1>1
<1> QED BY <1>2, Invariance, PTL DEF Spec, AffiliateKept

\* A referral id stays the user's whose row nobody makes his own
\* (createReferralIdIfNotExistsAndSave, updateUserPoints).
THEOREM ReferralIdsAreKept == Spec => ReferralIdKept
<1>1. ASSUME IInv, [Next]_vars, NEW i \in DOMAIN users,
             users[i].address \notin raced' \cup rewritten', users[i].referralId # None
      PROVE  users'[i] = users[i]
  <2>1. /\ raced \subseteq raced' /\ rewritten \subseteq rewritten'
        /\ Shapes /\ Renamed /\ StillAsRead
    BY <1>1, RacedKept, SentGrows, RegistrationAssumption DEF IInv
  <2>2. ASSUME NEW c \in Calls, NEW id \in ReferralIds, SaveReferralId(c, id), call[c].id = i
        PROVE  FALSE
    <3>1. call[c].pc = "generate" /\ call[c].user.referralId = None
      BY <2>1, <2>2 DEF SaveReferralId, Shapes, CallShaped
    <3>2. call[c].address = users[i].address
      BY <1>1, <2>1, <2>2, <3>1 DEF Renamed
    <3> QED BY <1>1, <2>1, <2>2, <3>1, <3>2 DEF StillAsRead
  <2>3. ASSUME SaveAwards, i \in DOMAIN award, users'[i] = award[i]
        PROVE  users'[i] = users[i]
    <3>1. award[i].address = users[i].address
      BY <1>1, <2>1, <2>3 DEF Renamed
    <3> QED BY <1>1, <2>1, <2>3, <3>1 DEF StillAsRead
  <2> QED BY <1>1, <2>2, <2>3, RowChange, RegistrationAssumption DEF IInv
<1>2. IInv /\ [Next]_vars =>
        [\A i \in DOMAIN users : users[i].address \notin raced' \cup rewritten' =>
           (users[i].referralId # None => users'[i] = users[i])]_vars
  BY <1>1
<1> QED BY <1>2, Invariance, PTL DEF Spec, ReferralIdKept

=============================================================================

--------------------------- MODULE MCRegistration ---------------------------
(***************************************************************************)
(* An instance of Registration: a file of two users, of whom the second    *)
(* refers the first and himself, in chunks of one row.                     *)
(***************************************************************************)
EXTENDS Registration, TLC

CONSTANTS ann, ben, eve, c1, c2, x, y, z

Row(a, code, id) == [address |-> a, refCode |-> code, refId |-> id]

MCKnown == <<[address |-> eve, referralId |-> z]>>
MCFiles == {<<Row(ann, y, x), Row(ben, y, y)>>}

MCSymmetry == Permutations(Calls)

\* For a user with two calls at a time the properties promise nothing: no
\* user's may overlap, or ben's alone beside no other disorder.  One row at a
\* time is awarded, one user sends a referral id, one row is rewritten, and
\* neither of its users registers again.
MCFew ==
    /\ \/ raced = {}
       \/ /\ raced = {ben} /\ brought \cup rewritten = {}
          /\ upload = NoUpload \/ award = NoAward
    /\ Cardinality(DOMAIN award) <= 1
    /\ Cardinality(brought) <= 1
    /\ Cardinality(brought) + Cardinality(rewritten) <= 3
    /\ \A c \in Calls : call[c].pc = "save" => call[c].address \notin rewritten

=============================================================================

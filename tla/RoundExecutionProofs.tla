----------------------- MODULE RoundExecutionProofs -----------------------
(***************************************************************************)
(* Proofs about RoundExecution for every set of symbols, markets and       *)
(* exchanges and every number of RPC endpoints.                            *)
(***************************************************************************)
EXTENDS RoundExecution, FiniteSetTheorems, TLAPS

LEMMA RpcsType == RpcCount \in Nat /\ Rpcs \subseteq Nat /\ 0 \in Rpcs /\ NoAttempt \notin Rpcs
  BY ConstantsAssumption DEF Rpcs, NoAttempt

\* What getExecutableTimeframes' loop head may do with the job's variables.
LEMMA QueryEndpointType ==
  ASSUME NEW m \in Markets, NEW i \in Nat, QueryEndpoint(m, i),
         rpc \in [Markets -> Rpcs]
  PROVE  /\ \E v \in {"timeframes", "activity", "settled"} : job' = [job EXCEPT ![m] = v]
         /\ rpc' \in [Markets -> Rpcs]
<1>1. CASE i < RpcCount /\ ~OutOfTime
  <2>1. i \in Rpcs  BY <1>1, RpcsType DEF Rpcs
  <2> QED  BY <1>1, <2>1 DEF QueryEndpoint
<1>2. CASE ~(i < RpcCount /\ ~OutOfTime)
  BY <1>2, RpcsType DEF QueryEndpoint, NoTimeframes
<1> QED  BY <1>1, <1>2

\* What executeRound's loop head may do with the job's variables.
LEMMA NextEndpointType ==
  ASSUME NEW m \in Markets, NEW c \in Nat, NEW tried \in [Rpcs -> Submission],
         NextEndpoint(m, c, tried),
         current \in [Markets -> Rpcs \cup {NoAttempt}],
         attempt \in [Markets -> [Rpcs -> Submission]],
         submissions \in [Markets -> [Rpcs -> Nat]]
  PROVE  /\ dataProviderStatuses' \in {dataProviderStatuses, {}}
         /\ missingDataProviderStatuses' = missingDataProviderStatuses
         /\ bound' = bound
         /\ \E v \in {"round", "true", "threw"} : job' = [job EXCEPT ![m] = v]
         /\ count' = [count EXCEPT ![m] = c]
         /\ current' \in [Markets -> Rpcs \cup {NoAttempt}]
         /\ attempt' \in [Markets -> [Rpcs -> Submission]]
         /\ submissions' \in [Markets -> [Rpcs -> Nat]]
<1>1. CASE c < RpcCount /\ ~OutOfTime
  <2>1. c \in Rpcs  BY <1>1, RpcsType DEF Rpcs
  <2>2. [tried EXCEPT ![c] = "pending"] \in [Rpcs -> Submission]
    BY DEF Submission
  <2>3. [submissions[m] EXCEPT ![c] = submissions[m][c] + 1] \in [Rpcs -> Nat]
    BY <2>1
  <2>4. /\ attempt' = [attempt EXCEPT ![m] = [tried EXCEPT ![c] = "pending"]]
        /\ submissions' = [submissions EXCEPT ![m] = [submissions[m] EXCEPT ![c] = submissions[m][c] + 1]]
        /\ count' = [count EXCEPT ![m] = c]
        /\ current' = [current EXCEPT ![m] = c]
        /\ job' = [job EXCEPT ![m] = "round"]
        /\ UNCHANGED <<dataProviderStatuses, missingDataProviderStatuses, bound>>
    BY <1>1 DEF NextEndpoint, statusVars
  <2>5. attempt' \in [Markets -> [Rpcs -> Submission]]
    BY <2>2, <2>4
  <2>6. submissions' \in [Markets -> [Rpcs -> Nat]]
    BY <2>3, <2>4
  <2>7. current' \in [Markets -> Rpcs \cup {NoAttempt}]
    BY <2>1, <2>4
  <2> QED  BY <2>4, <2>5, <2>6, <2>7
<1>2. CASE ~(c < RpcCount /\ ~OutOfTime)
  BY <1>2 DEF NextEndpoint, FinishRound
<1> QED  BY <1>1, <1>2

\* The part of TypeOK executeRound can disturb.
RoundTypes ==
    /\ dataProviderStatuses \in SUBSET DataProviders
    /\ missingDataProviderStatuses \in SUBSET DataProviders
    /\ bound \in SUBSET DataProviders
    /\ job \in [Markets -> JobStates]
    /\ count \in [Markets -> Nat]
    /\ current \in [Markets -> Rpcs \cup {NoAttempt}]
    /\ attempt \in [Markets -> [Rpcs -> Submission]]
    /\ submissions \in [Markets -> [Rpcs -> Nat]]

LEMMA NextEndpointKeepsTypes ==
  ASSUME TypeOK, NEW m \in Markets, NEW c \in Nat, NEW tried \in [Rpcs -> Submission],
         NextEndpoint(m, c, tried)
  PROVE  RoundTypes'
<1>1. /\ current \in [Markets -> Rpcs \cup {NoAttempt}]
      /\ attempt \in [Markets -> [Rpcs -> Submission]]
      /\ submissions \in [Markets -> [Rpcs -> Nat]]
  BY DEF TypeOK
<1>2. job' \in [Markets -> JobStates]
  BY <1>1, NextEndpointType DEF TypeOK, JobStates
<1>3. count' \in [Markets -> Nat]
  <2>1. count \in [Markets -> Nat]  BY DEF TypeOK
  <2>2. count' = [count EXCEPT ![m] = c]  BY <1>1, NextEndpointType
  <2> QED  BY <2>1, <2>2
<1> QED  BY <1>1, <1>2, <1>3, NextEndpointType DEF TypeOK, RoundTypes

LEMMA TypeStep == TypeOK /\ [Next]_vars => TypeOK'
<1> SUFFICES ASSUME TypeOK, [Next]_vars PROVE TypeOK'
  OBVIOUS
<1> USE DEF vars, clockVars, statusVars, taskVars, queryVars, roundVars
<1>1. CASE Tick
  BY <1>1 DEF TypeOK, Tick
<1>2. ASSUME NEW p \in DataProviders, MissingFetchFails(p) PROVE TypeOK'
  BY <1>2 DEF TypeOK, MissingFetchFails
<1>3. ASSUME NEW s \in Symbols, TaskStep(s) PROVE TypeOK'
  <2>1. CASE SaveDefault(s)  BY <2>1 DEF TypeOK, SaveDefault
  <2>2. CASE SkipWrite(s)    BY <2>2 DEF TypeOK, SkipWrite
  <2>3. CASE StartWrite(s)
    <3>1. job \in [Markets -> JobStates] /\ late \in [Markets -> BOOLEAN]
      BY DEF TypeOK
    <3>2. job' \in [Markets -> JobStates]
      BY <2>3, <3>1 DEF StartWrite, JobStates
    <3>3. late' \in [Markets -> BOOLEAN]
      <4>1. \A m \in Markets : PastDeadline(m) \in BOOLEAN  BY DEF PastDeadline
      <4> QED  BY <2>3, <3>1, <4>1 DEF StartWrite
    <3> QED  BY <2>3, <3>2, <3>3 DEF TypeOK, StartWrite
  <2>4. CASE JoinMarkets(s)  BY <2>4 DEF TypeOK, JoinMarkets
  <2> QED  BY <1>3, <2>1, <2>2, <2>3, <2>4 DEF TaskStep
<1>4. ASSUME NEW m \in Markets, PollBlock(m) PROVE TypeOK'
  <2>1. /\ job' \in [Markets -> JobStates]
        /\ rpc' \in [Markets -> Rpcs]
        /\ late' \in [Markets -> BOOLEAN]
    <3>1. CASE QueryEndpoint(m, 0) /\ late' = [late EXCEPT ![m] = FALSE]
      BY <3>1, QueryEndpointType DEF TypeOK, JobStates
    <3>2. CASE late' = [late EXCEPT ![m] = PastDeadline(m)] /\ UNCHANGED <<job, rpc>>
      BY <3>2 DEF TypeOK, PastDeadline
    <3> QED  BY <1>4, <3>1, <3>2 DEF PollBlock, PollEnds, PollAgain
  <2> QED  BY <1>4, <2>1 DEF TypeOK, PollBlock, PollEnds, PollAgain
<1>5. ASSUME NEW m \in Markets, QueryFails(m) PROVE TypeOK'
  <2>1. rpc[m] + 1 \in Nat
    <3>1. rpc \in [Markets -> Rpcs]  BY DEF TypeOK
    <3>2. rpc[m] \in Rpcs  BY <3>1
    <3>3. rpc[m] \in Nat  BY <3>2, RpcsType
    <3> QED  BY <3>3
  <2>2. job' \in [Markets -> JobStates] /\ rpc' \in [Markets -> Rpcs]
    <3>1. job \in [Markets -> JobStates] /\ rpc \in [Markets -> Rpcs]
      BY DEF TypeOK
    <3>2. QueryEndpoint(m, rpc[m] + 1)
      BY <1>5 DEF QueryFails
    <3>3. /\ \E v \in {"timeframes", "activity", "settled"} : job' = [job EXCEPT ![m] = v]
          /\ rpc' \in [Markets -> Rpcs]
      BY <2>1, <3>1, <3>2, QueryEndpointType
    <3> QED  BY <3>1, <3>3 DEF JobStates
  <2> QED  BY <1>5, <2>2 DEF TypeOK, QueryFails
<1>6. ASSUME NEW m \in Markets, QueryNothingDue(m) PROVE TypeOK'
  <2>1. job' \in [Markets -> JobStates] /\ rpc' \in [Markets -> Rpcs]
    BY <1>6, RpcsType DEF TypeOK, QueryNothingDue, NoTimeframes, JobStates
  <2> QED  BY <1>6, <2>1 DEF TypeOK, QueryNothingDue
<1>7. ASSUME NEW m \in Markets, QueryDue(m) PROVE TypeOK'
  <2>1. rpc' \in [Markets -> Rpcs]
    BY <1>7, RpcsType DEF QueryDue, TypeOK
  <2>2. CASE NextEndpoint(m, 0, attempt[m])
    BY <1>7, <2>1, <2>2, NextEndpointKeepsTypes DEF TypeOK, QueryDue, RoundTypes
  <2>3. CASE /\ UNCHANGED <<statusVars, roundVars>>
             /\ \E v \in {"untrusted", "profit"} : job' = [job EXCEPT ![m] = v]
    <3>1. job' \in [Markets -> JobStates]  BY <2>3 DEF TypeOK, JobStates
    <3> QED  BY <1>7, <2>1, <2>3, <3>1 DEF TypeOK, QueryDue
  <2> QED  BY <1>7, <2>2, <2>3 DEF QueryDue
<1>8. ASSUME NEW m \in Markets, MakeActivity(m) PROVE TypeOK'
  <2>1. /\ job' \in [Markets -> JobStates]
        /\ late' \in [Markets -> BOOLEAN]
        /\ revived' \in [Markets -> BOOLEAN]
    <3>1. /\ job \in [Markets -> JobStates]
          /\ late \in [Markets -> BOOLEAN]
          /\ revived \in [Markets -> BOOLEAN]
      BY DEF TypeOK
    <3>2. PastDeadline(m) \in BOOLEAN  BY DEF PastDeadline
    <3>3. "block" \in JobStates /\ "settled" \in JobStates  BY DEF JobStates
    <3> QED  BY <1>8, <3>1, <3>2, <3>3 DEF MakeActivity
  <2> QED  BY <1>8, <2>1 DEF TypeOK, MakeActivity
<1>9. ASSUME NEW m \in Markets, ProfitKnown(m) PROVE TypeOK'
  <2>1. RoundTypes'
    BY <1>9, NextEndpointKeepsTypes DEF ProfitKnown, TypeOK
  <2> QED  BY <1>9, <2>1 DEF TypeOK, ProfitKnown, RoundTypes
<1>10. ASSUME NEW m \in Markets, ProfitUnknown(m) PROVE TypeOK'
  <2>1. job' \in [Markets -> JobStates]
    BY <1>10 DEF TypeOK, ProfitUnknown, JobStates
  <2> QED  BY <1>10, <2>1 DEF TypeOK, ProfitUnknown
<1>11. ASSUME NEW m \in Markets, RoundFails(m) PROVE TypeOK'
  <2>1. /\ count[m] + 2 \in Nat
        /\ [attempt[m] EXCEPT ![current[m]] = "failed"] \in [Rpcs -> Submission]
    <3>1. count \in [Markets -> Nat] /\ attempt \in [Markets -> [Rpcs -> Submission]]
      BY DEF TypeOK
    <3>2. "failed" \in Submission  BY DEF Submission
    <3>3. count[m] \in Nat  BY <3>1
    <3>4. attempt[m] \in [Rpcs -> Submission]  BY <3>1
    <3>5. [attempt[m] EXCEPT ![current[m]] = "failed"] \in [Rpcs -> Submission]
      BY <3>2, <3>4
    <3> QED  BY <3>3, <3>5
  <2>2. RoundTypes'
    BY <1>11, <2>1, NextEndpointKeepsTypes DEF RoundFails
  <2> QED  BY <1>11, <2>2 DEF TypeOK, RoundFails, RoundTypes
<1>12. ASSUME NEW m \in Markets, RoundTimeout(m) PROVE TypeOK'
  <2>1. count[m] + 1 \in Nat /\ attempt[m] \in [Rpcs -> Submission]
    BY DEF TypeOK
  <2>2. RoundTypes'
    BY <1>12, <2>1, NextEndpointKeepsTypes DEF RoundTimeout
  <2> QED  BY <1>12, <2>2 DEF TypeOK, RoundTimeout, RoundTypes
<1>13. ASSUME NEW m \in Markets, NEW r \in Rpcs, SubmissionStep(m, r) PROVE TypeOK'
  <2>1. attempt' \in [Markets -> [Rpcs -> Submission]]
    <3>1. attempt \in [Markets -> [Rpcs -> Submission]]  BY DEF TypeOK
    <3>2. "mined" \in Submission /\ "failed" \in Submission  BY DEF Submission
    <3>3. \E v \in Submission : attempt' = [attempt EXCEPT ![m] = [attempt[m] EXCEPT ![r] = v]]
      BY <1>13, <3>2 DEF SubmissionStep, Mine, LateFailure
    <3> QED  BY <3>1, <3>3
  <2>2. CASE Mine(m, r)
    <3>1. job' \in [Markets -> JobStates]
      BY <2>2 DEF TypeOK, Mine, FinishRound, JobStates
    <3>2. /\ dataProviderStatuses' \in SUBSET DataProviders
          /\ missingDataProviderStatuses' \in SUBSET DataProviders
          /\ bound' \in SUBSET DataProviders
          /\ count' \in [Markets -> Nat]
          /\ current' \in [Markets -> Rpcs \cup {NoAttempt}]
      <4>1. /\ count \in [Markets -> Nat] /\ current \in [Markets -> Rpcs \cup {NoAttempt}]
            /\ dataProviderStatuses \in SUBSET DataProviders
            /\ missingDataProviderStatuses \in SUBSET DataProviders
            /\ bound \in SUBSET DataProviders
        BY DEF TypeOK
      <4>2. CASE current[m] = r
        BY <2>2, <4>1, <4>2 DEF Mine, FinishRound
      <4>3. CASE current[m] # r
        BY <2>2, <4>1, <4>3 DEF Mine
      <4> QED  BY <4>2, <4>3
    <3> QED  BY <2>1, <2>2, <3>1, <3>2 DEF TypeOK, Mine
  <2>3. CASE LateFailure(m, r)
    BY <2>1, <2>3 DEF TypeOK, LateFailure
  <2> QED  BY <1>13, <2>2, <2>3 DEF SubmissionStep
<1>14. CASE UNCHANGED vars
  BY <1>14 DEF TypeOK
<1> QED
  BY <1>1, <1>2, <1>3, <1>4, <1>5, <1>6, <1>7, <1>8, <1>9, <1>10, <1>11, <1>12, <1>13, <1>14
  DEF Next, QueryStep, ProfitStep

LEMMA InitTypeOK == Init => TypeOK
<1>1. \A b \in SUBSET DataProviders :
        (IF Cardinality(b) < 3 THEN "saving" ELSE "done") \in {"saving", "pricing", "writing", "done"}
  OBVIOUS
<1> QED  BY <1>1, RpcsType DEF Init, TypeOK, JobStates, Submission

\* Every variable always has its type (RoundExecution's type invariant), with
\* any number of markets and endpoints.
THEOREM TypeCorrect == Spec => []TypeOK
  BY InitTypeOK, TypeStep, PTL DEF Spec

-----------------------------------------------------------------------------
(***************************************************************************)
(* The inductive invariant behind the safety properties.                   *)
(***************************************************************************)
RoundOver(m) == job[m] \in {"true", "threw"}

\* The shared list only ever loses what the binding put there, and only by
\* the end of a round.
StatusesInv ==
    /\ dataProviderStatuses \in {bound, {}}
    /\ dataProviderStatuses # bound => \E m \in Markets : RoundOver(m)

\* Without a quorum no job gets past its test.
QuorumInv ==
    Cardinality(bound) >= 2 => \A m \in Markets : ~Writing(m) /\ ~RoundOver(m)

\* executeRound works upwards through the endpoints: count is never below the
\* awaited endpoint, and nothing above the awaited one was used.
RoundInv(m) ==
    /\ job[m] = "round" =>
         /\ current[m] \in Rpcs
         /\ current[m] <= count[m]
         /\ attempt[m][current[m]] = "pending"
         /\ \A r \in Rpcs : attempt[m][r] # "none" => r <= current[m]
         /\ BinanceMissing => profit[m] = "ok"
    /\ job[m] # "round" => current[m] = NoAttempt
    /\ job[m] # "round" /\ ~RoundOver(m) => \A r \in Rpcs : attempt[m][r] = "none"
    /\ \A r \in Rpcs :
         /\ submissions[m][r] <= 1
         /\ attempt[m][r] = "none" => submissions[m][r] = 0

\* A task that has not reached the writing stage has no job under way.
TaskInv ==
    \A s \in Symbols : task[s] \in {"saving", "pricing"} =>
        \A m \in MarketsOf(s) : job[m] = "idle"

Safe ==
    /\ StatusesInv
    /\ QuorumInv
    /\ \A m \in Markets : RoundInv(m)
    /\ TaskInv
    /\ RecordedStatuses

IInv == TypeOK /\ Safe

\* A job moves between two states outside executeRound.
LEMMA JobMoveSafe ==
  ASSUME TypeOK, Safe, NEW m \in Markets,
         NEW v \in JobStates \ {"round", "true", "threw"},
         job' = [job EXCEPT ![m] = v],
         job[m] \notin {"idle", "round", "true", "threw"},
         v = "profit" => ~(Cardinality(bound) >= 2),
         UNCHANGED <<statusVars, taskVars, profit, roundVars>>
  PROVE  Safe'
<1> USE DEF statusVars, taskVars, roundVars
<1>1. job \in [Markets -> JobStates]
  BY DEF TypeOK
<1>2. \A n \in Markets : n # m => job'[n] = job[n]
  BY <1>1
<1>3. job'[m] = v
  BY <1>1
<1>4. \A n \in Markets : RoundOver(n)' = RoundOver(n)
  BY <1>2, <1>3 DEF RoundOver
<1>5. StatusesInv'
  BY <1>4 DEF Safe, StatusesInv
<1>6. QuorumInv'
  BY <1>2, <1>3, <1>4 DEF Safe, QuorumInv, Writing
<1>7. ASSUME NEW n \in Markets PROVE RoundInv(n)'
  BY <1>2, <1>3, <1>4 DEF Safe, RoundInv, RoundOver, BinanceMissing
<1>8. TaskInv'
  BY <1>2 DEF Safe, TaskInv, MarketsOf
<1>9. RecordedStatuses'
  BY <1>2, <1>3 DEF Safe, RecordedStatuses
<1> QED  BY <1>5, <1>6, <1>7, <1>8, <1>9 DEF Safe

LEMMA QueryMoveSafe ==
  ASSUME TypeOK, Safe, NEW m \in Markets, NEW i \in Nat, QueryEndpoint(m, i),
         job[m] \in {"block", "timeframes"},
         UNCHANGED <<statusVars, taskVars, profit, roundVars>>
  PROVE  Safe'
<1>1. rpc \in [Markets -> Rpcs]  BY DEF TypeOK
<1>2. PICK v \in {"timeframes", "activity", "settled"} : job' = [job EXCEPT ![m] = v]
  BY <1>1, QueryEndpointType
<1> QED  BY <1>2, JobMoveSafe DEF JobStates

LEMMA BoundCardinality ==
  ASSUME TypeOK
  PROVE  Cardinality(bound) \in Nat /\ Cardinality({}) = 0
  BY ConstantsAssumption, FS_Subset, FS_CardinalityType, FS_EmptySet DEF TypeOK

\* A job leaves executeRound with count c.
LEMMA FinishRoundSafe ==
  ASSUME TypeOK, Safe, NEW m \in Markets, NEW c \in Nat,
         FinishRound(m, c),
         UNCHANGED <<taskVars, submissions>>,
         job[m] \notin {"idle", "true", "threw"},
         ~(Cardinality(bound) >= 2),
         \A r \in Rpcs : attempt'[m][r] = "none" => submissions'[m][r] = 0,
         \A n \in Markets : n # m => profit'[n] = profit[n] /\ attempt'[n] = attempt[n]
  PROVE  Safe'
<1> USE DEF taskVars
<1>1. job \in [Markets -> JobStates] /\ count \in [Markets -> Nat]
      /\ current \in [Markets -> Rpcs \cup {NoAttempt}]
  BY DEF TypeOK
<1>2. \A n \in Markets : n # m => job'[n] = job[n] /\ current'[n] = current[n] /\ count'[n] = count[n]
  BY <1>1 DEF FinishRound
<1>3. job'[m] \in {"true", "threw"} /\ current'[m] = NoAttempt
  BY <1>1 DEF FinishRound
<1>4. dataProviderStatuses' = {} /\ bound' = bound
  BY DEF FinishRound
<1>5. StatusesInv'
  BY <1>3, <1>4 DEF StatusesInv, RoundOver
<1>6. QuorumInv'
  BY <1>4 DEF QuorumInv
<1>7. RoundInv(m)'
  <2>1. \A r \in Rpcs : submissions'[m][r] <= 1
    BY DEF Safe, RoundInv
  <2> QED  BY <1>3, <2>1 DEF RoundInv, RoundOver
<1>8. ASSUME NEW n \in Markets, n # m PROVE RoundInv(n)'
  BY <1>2, <1>4, <1>8 DEF Safe, RoundInv, RoundOver, BinanceMissing
<1>9. TaskInv'
  BY <1>2 DEF Safe, TaskInv, MarketsOf
<1>10. RecordedStatuses'
  BY <1>2, <1>3, <1>4 DEF Safe, RecordedStatuses
<1> QED  BY <1>5, <1>6, <1>7, <1>8, <1>9, <1>10 DEF Safe

\* The head of executeRound's loop, entered with count c.
LEMMA NextEndpointSafe ==
  ASSUME TypeOK, Safe, NEW m \in Markets, NEW c \in Nat, NEW tried \in [Rpcs -> Submission],
         NextEndpoint(m, c, tried),
         UNCHANGED taskVars,
         job[m] \notin {"idle", "true", "threw"},
         ~(Cardinality(bound) >= 2),
         \A r \in Rpcs : tried[r] = "none" <=> attempt[m][r] = "none",
         \A r \in Rpcs : tried[r] # "none" => r < c,
         \A n \in Markets : n # m => profit'[n] = profit[n],
         BinanceMissing => profit'[m] = "ok"
  PROVE  Safe'
<1> USE DEF statusVars, taskVars, roundVars
<1>1. /\ job \in [Markets -> JobStates]
      /\ count \in [Markets -> Nat]
      /\ current \in [Markets -> Rpcs \cup {NoAttempt}]
      /\ attempt \in [Markets -> [Rpcs -> Submission]]
      /\ submissions \in [Markets -> [Rpcs -> Nat]]
  BY DEF TypeOK
<1>2. CASE c < RpcCount /\ ~OutOfTime
  <2>1. c \in Rpcs  BY <1>2, RpcsType DEF Rpcs
  <2>2. /\ attempt' = [attempt EXCEPT ![m] = [tried EXCEPT ![c] = "pending"]]
        /\ submissions' = [submissions EXCEPT ![m] = [submissions[m] EXCEPT ![c] = submissions[m][c] + 1]]
        /\ count' = [count EXCEPT ![m] = c]
        /\ current' = [current EXCEPT ![m] = c]
        /\ job' = [job EXCEPT ![m] = "round"]
        /\ UNCHANGED <<dataProviderStatuses, missingDataProviderStatuses, bound>>
    BY <1>2 DEF NextEndpoint
  <2>3. \A n \in Markets : n # m =>
          /\ job'[n] = job[n] /\ count'[n] = count[n] /\ current'[n] = current[n]
          /\ attempt'[n] = attempt[n] /\ submissions'[n] = submissions[n]
    BY <1>1, <2>2
  <2>4. /\ job'[m] = "round" /\ count'[m] = c /\ current'[m] = c
        /\ attempt'[m] = [tried EXCEPT ![c] = "pending"]
        /\ submissions'[m] = [submissions[m] EXCEPT ![c] = submissions[m][c] + 1]
    BY <1>1, <2>2
  <2>5. \A n \in Markets : RoundOver(n)' = RoundOver(n)
    BY <2>3, <2>4 DEF RoundOver
  <2>6. StatusesInv'
    BY <2>2, <2>5 DEF Safe, StatusesInv
  <2>7. QuorumInv'
    BY <2>2 DEF QuorumInv
  <2>8. RoundInv(m)'
    <3>1. attempt'[m][c] = "pending"
      BY <2>1, <2>4
    <3>2. \A r \in Rpcs : r # c => attempt'[m][r] = tried[r] /\ submissions'[m][r] = submissions[m][r]
      BY <1>1, <2>1, <2>4
    <3>3. \A r \in Rpcs : attempt'[m][r] # "none" => r <= c
      <4>1. SUFFICES ASSUME NEW r \in Rpcs, attempt'[m][r] # "none", r # c PROVE r <= c
        BY RpcsType
      <4>2. r < c  BY <3>2, <4>1
      <4> QED  BY <4>2, RpcsType
    <3>4. submissions[m][c] = 0
      <4>1. tried[c] = "none"  BY <2>1
      <4> QED  BY <2>1, <4>1 DEF Safe, RoundInv
    <3>5. submissions'[m][c] = 1
      BY <1>1, <2>1, <2>4, <3>4
    <3>6. \A r \in Rpcs :
            /\ submissions'[m][r] <= 1
            /\ attempt'[m][r] = "none" => submissions'[m][r] = 0
      BY <2>1, <3>1, <3>2, <3>5 DEF Safe, RoundInv
    <3>7. BinanceMissing' => profit'[m] = "ok"
      BY <2>2 DEF BinanceMissing
    <3> QED  BY <2>1, <2>4, <3>1, <3>3, <3>6, <3>7 DEF RoundInv
  <2>9. ASSUME NEW n \in Markets, n # m PROVE RoundInv(n)'
    BY <2>2, <2>3, <2>9 DEF Safe, RoundInv, RoundOver, BinanceMissing
  <2>10. TaskInv'
    BY <2>3 DEF Safe, TaskInv, MarketsOf
  <2>11. RecordedStatuses'
    BY <2>2, <2>3, <2>4 DEF Safe, RecordedStatuses
  <2> QED  BY <2>6, <2>7, <2>8, <2>9, <2>10, <2>11 DEF Safe
<1>3. CASE ~(c < RpcCount /\ ~OutOfTime)
  <2>1. /\ attempt' = [attempt EXCEPT ![m] = tried]
        /\ FinishRound(m, c)
        /\ submissions' = submissions
    BY <1>3 DEF NextEndpoint
  <2>2. attempt'[m] = tried /\ \A n \in Markets : n # m => attempt'[n] = attempt[n]
    BY <1>1, <2>1
  <2>3. \A r \in Rpcs : attempt'[m][r] = "none" => submissions'[m][r] = 0
    BY <2>1, <2>2 DEF Safe, RoundInv
  <2> QED  BY <2>1, <2>2, <2>3, FinishRoundSafe
<1> QED  BY <1>2, <1>3

LEMMA QuorumUnderWriting ==
  ASSUME Safe, NEW m \in Markets, Writing(m)
  PROVE  ~(Cardinality(bound) >= 2)
  BY DEF Safe, QuorumInv

\* Every step of the clock, the tasks and the jobs keeps the invariant.
THEOREM Inductive == IInv /\ [Next]_vars => IInv'
<1> SUFFICES ASSUME IInv, [Next]_vars PROVE IInv'
  OBVIOUS
<1> USE DEF vars, clockVars, statusVars, taskVars, queryVars, roundVars
<1>t. TypeOK /\ TypeOK' /\ Safe
  BY TypeStep DEF IInv
<1> SUFFICES Safe'
  BY <1>t DEF IInv
<1>j. job \in [Markets -> JobStates]
  BY <1>t DEF TypeOK
<1>1. ASSUME UNCHANGED <<dataProviderStatuses, bound, task, recorded, job, profit, count,
                         current, attempt, submissions>>
      PROVE Safe'
  BY <1>t, <1>1 DEF Safe, StatusesInv, QuorumInv, RoundInv, TaskInv, RecordedStatuses,
                    RoundOver, Writing, BinanceMissing, MarketsOf
<1>2. CASE Tick
  BY <1>1, <1>2 DEF Tick
<1>3. ASSUME NEW p \in DataProviders, MissingFetchFails(p) PROVE Safe'
  BY <1>1, <1>3 DEF MissingFetchFails
<1>4. ASSUME NEW s \in Symbols, TaskStep(s) PROVE Safe'
  <2>1. UNCHANGED <<dataProviderStatuses, bound, profit, count, current, attempt, submissions>>
    BY <1>4 DEF TaskStep, SaveDefault, SkipWrite, StartWrite, JoinMarkets
  <2>2. CASE UNCHANGED job
    <3>1. StatusesInv' /\ QuorumInv' /\ \A m \in Markets : RoundInv(m)'
      BY <1>t, <2>1, <2>2 DEF Safe, StatusesInv, QuorumInv, RoundInv, RoundOver, Writing,
                              BinanceMissing
    <3>2. TaskInv'
      <4>1. task \in [Symbols -> {"saving", "pricing", "writing", "done"}]
        BY <1>t DEF TypeOK
      <4>2. \A x \in Symbols : task'[x] \in {"saving", "pricing"} => task[x] \in {"saving", "pricing"}
        BY <1>4, <2>2, <4>1 DEF TaskStep, SaveDefault, SkipWrite, StartWrite, JoinMarkets
      <4> QED  BY <1>t, <2>2, <4>2 DEF Safe, TaskInv, MarketsOf
    <3>3. RecordedStatuses'
      <4>1. CASE recorded' = [recorded EXCEPT ![s] = dataProviderStatuses] /\ task[s] = "saving"
        <5>1. recorded \in [Symbols -> (SUBSET DataProviders) \cup {NoRecord, Carried}]
          BY <1>t DEF TypeOK
        <5>2. \A x \in Symbols : x # s => recorded'[x] = recorded[x]
          BY <4>1, <5>1
        <5>3. recorded'[s] = dataProviderStatuses
          BY <4>1, <5>1
        <5>4. \A m \in Markets : RoundOver(m) => SymbolOf[m] # s
          BY <1>t, <4>1 DEF Safe, TaskInv, MarketsOf, RoundOver
        <5> QED  BY <1>t, <2>1, <2>2, <5>2, <5>3, <5>4
                 DEF Safe, RecordedStatuses, StatusesInv, RoundOver
      <4>2. CASE recorded' = [recorded EXCEPT ![s] = Carried]
        <5>1. recorded \in [Symbols -> (SUBSET DataProviders) \cup {NoRecord, Carried}]
          BY <1>t DEF TypeOK
        <5>2. \A x \in Symbols : recorded'[x] \in {recorded[x], Carried}
          BY <4>2, <5>1
        <5> QED  BY <1>t, <2>1, <2>2, <5>2 DEF Safe, RecordedStatuses
      <4>3. CASE recorded' = recorded
        BY <1>t, <2>1, <2>2, <4>3 DEF Safe, RecordedStatuses
      <4> QED  BY <1>4, <2>2, <4>1, <4>2, <4>3 DEF TaskStep, SaveDefault, SkipWrite, StartWrite, JoinMarkets
    <3> QED  BY <3>1, <3>2, <3>3 DEF Safe
  <2>3. CASE StartWrite(s)
    <3>1. \A m \in Markets : job'[m] = IF m \in MarketsOf(s) THEN "block" ELSE job[m]
      BY <2>3 DEF StartWrite
    <3>2. \A m \in MarketsOf(s) : job[m] = "idle"
      BY <1>t, <2>3 DEF Safe, TaskInv, StartWrite
    <3>3. \A m \in Markets : job'[m] = job[m] \/ (job[m] = "idle" /\ job'[m] = "block")
      BY <3>1, <3>2
    <3>4. StatusesInv' /\ QuorumInv' /\ \A m \in Markets : RoundInv(m)'
      BY <1>t, <2>1, <3>3 DEF Safe, StatusesInv, QuorumInv, RoundInv, RoundOver, Writing,
                              BinanceMissing
    <3>5. TaskInv'
      <4>1. task \in [Symbols -> {"saving", "pricing", "writing", "done"}]
        BY <1>t DEF TypeOK
      <4>2. task' = [task EXCEPT ![s] = "writing"]
        BY <2>3 DEF StartWrite
      <4> QED  BY <1>t, <3>1, <4>1, <4>2 DEF Safe, TaskInv, MarketsOf
    <3>6. RecordedStatuses'
      BY <1>t, <2>1, <2>3, <3>3 DEF Safe, RecordedStatuses, StartWrite
    <3> QED  BY <3>4, <3>5, <3>6 DEF Safe
  <2> QED  BY <1>4, <2>2, <2>3 DEF TaskStep, SaveDefault, SkipWrite, JoinMarkets
<1>5. ASSUME NEW m \in Markets, PollBlock(m) PROVE Safe'
  <2>1. CASE QueryEndpoint(m, 0)
    BY <1>5, <1>j, <1>t, <2>1, QueryMoveSafe DEF PollBlock, PollEnds, PollAgain
  <2>2. CASE UNCHANGED job
    BY <1>1, <1>5, <2>2 DEF PollBlock, PollEnds, PollAgain
  <2> QED  BY <1>5, <2>1, <2>2 DEF PollBlock, PollEnds, PollAgain
<1>6. ASSUME NEW m \in Markets, QueryFails(m) PROVE Safe'
  <2>1. rpc \in [Markets -> Rpcs]  BY <1>t DEF TypeOK
  <2>2. rpc[m] \in Nat  BY <2>1, RpcsType
  <2>3. rpc[m] + 1 \in Nat  BY <2>2
  <2> QED  BY <1>6, <1>t, <2>3, QueryMoveSafe DEF QueryFails
<1>7. ASSUME NEW m \in Markets, QueryNothingDue(m) PROVE Safe'
  <2>1. \E v \in {"activity", "settled"} : job' = [job EXCEPT ![m] = v]
    BY <1>7 DEF QueryNothingDue, NoTimeframes
  <2> QED  BY <1>7, <1>t, <2>1, JobMoveSafe DEF QueryNothingDue, JobStates
<1>8. ASSUME NEW m \in Markets, QueryDue(m) PROVE Safe'
  <2>1. CASE MissingTooMany
    <3>1. job' = [job EXCEPT ![m] = "untrusted"]  BY <1>8, <2>1 DEF QueryDue
    <3> QED  BY <1>8, <1>t, <2>1, <3>1, JobMoveSafe DEF QueryDue, JobStates
  <2>2. CASE ~MissingTooMany
    <3>1. ~(Cardinality(bound) >= 2)
      <4>1. SUFFICES ASSUME Cardinality(bound) >= 2 PROVE FALSE
        OBVIOUS
      <4>2. dataProviderStatuses = bound
        BY <1>t, <4>1 DEF Safe, StatusesInv, QuorumInv
      <4> QED  BY <2>2, <4>1, <4>2, <1>t, BoundCardinality DEF MissingTooMany
    <3>2. CASE BinanceMissing
      <4>1. job' = [job EXCEPT ![m] = "profit"]  BY <1>8, <2>2, <3>2 DEF QueryDue
      <4> QED  BY <1>8, <1>t, <2>2, <3>1, <3>2, <4>1, JobMoveSafe DEF QueryDue, JobStates
    <3>3. CASE ~BinanceMissing
      <4>1. NextEndpoint(m, 0, attempt[m])  BY <1>8, <2>2, <3>3 DEF QueryDue
      <4>2. attempt[m] \in [Rpcs -> Submission]
        <5>1. attempt \in [Markets -> [Rpcs -> Submission]]  BY <1>t DEF TypeOK
        <5> QED  BY <5>1
      <4>3. \A r \in Rpcs : attempt[m][r] = "none"
        BY <1>8, <1>t DEF Safe, RoundInv, RoundOver, QueryDue
      <4> QED  BY <1>8, <1>t, <3>1, <3>3, <4>1, <4>2, <4>3, NextEndpointSafe DEF QueryDue
    <3> QED  BY <3>2, <3>3
  <2> QED  BY <2>1, <2>2
<1>9. ASSUME NEW m \in Markets, MakeActivity(m) PROVE Safe'
  <2>1. \E v \in {"block", "settled"} : job' = [job EXCEPT ![m] = v]
    BY <1>9 DEF MakeActivity
  <2> QED  BY <1>9, <1>t, <2>1, JobMoveSafe DEF MakeActivity, JobStates
<1>10. ASSUME NEW m \in Markets, ProfitKnown(m) PROVE Safe'
  <2>1. attempt[m] \in [Rpcs -> Submission]
    <3>1. attempt \in [Markets -> [Rpcs -> Submission]]  BY <1>t DEF TypeOK
    <3> QED  BY <3>1
  <2>2. \A r \in Rpcs : attempt[m][r] = "none"
    BY <1>10, <1>t DEF Safe, RoundInv, RoundOver, ProfitKnown
  <2>3. profit'[m] = "ok" /\ \A n \in Markets : n # m => profit'[n] = profit[n]
    <3>1. profit \in [Markets -> {"unknown", "ok"}]  BY <1>t DEF TypeOK
    <3> QED  BY <1>10, <3>1 DEF ProfitKnown
  <2>4. ~(Cardinality(bound) >= 2)
    BY <1>10, <1>t, QuorumUnderWriting DEF Writing, ProfitKnown
  <2> QED  BY <1>10, <1>t, <2>1, <2>2, <2>3, <2>4, NextEndpointSafe DEF ProfitKnown
<1>11. ASSUME NEW m \in Markets, ProfitUnknown(m) PROVE Safe'
  BY <1>11, <1>t, JobMoveSafe DEF ProfitUnknown, JobStates
<1>12. ASSUME NEW m \in Markets, RoundFails(m) \/ RoundTimeout(m) PROVE Safe'
  <2>1. job[m] = "round" /\ UNCHANGED <<taskVars, profit>>
    BY <1>12 DEF RoundFails, RoundTimeout
  <2>2. ~(Cardinality(bound) >= 2)
    BY <1>t, <2>1, QuorumUnderWriting DEF Writing
  <2>3. /\ count[m] \in Nat
        /\ attempt[m] \in [Rpcs -> Submission]
    <3>1. count \in [Markets -> Nat] /\ attempt \in [Markets -> [Rpcs -> Submission]]
      BY <1>t DEF TypeOK
    <3> QED  BY <3>1
  <2>4. /\ current[m] \in Rpcs
        /\ current[m] <= count[m]
        /\ attempt[m][current[m]] = "pending"
        /\ \A r \in Rpcs : attempt[m][r] # "none" => r <= current[m]
        /\ BinanceMissing => profit[m] = "ok"
    BY <1>t, <2>1 DEF Safe, RoundInv
  <2>5. \A r \in Rpcs : attempt[m][r] # "none" => r < count[m] + 1 /\ r < count[m] + 2
    <3>1. SUFFICES ASSUME NEW r \in Rpcs, attempt[m][r] # "none"
                   PROVE r < count[m] + 1 /\ r < count[m] + 2
      OBVIOUS
    <3>2. r \in Nat /\ current[m] \in Nat  BY <2>4, RpcsType
    <3>3. r <= current[m]  BY <2>4, <3>1
    <3> QED  BY <2>3, <2>4, <3>2, <3>3
  <2>6. PICK c \in {count[m] + 1, count[m] + 2},
             tried \in {attempt[m], [attempt[m] EXCEPT ![current[m]] = "failed"]} :
             NextEndpoint(m, c, tried)
    BY <1>12 DEF RoundFails, RoundTimeout
  <2>7. c \in Nat  BY <2>3
  <2>8. tried \in [Rpcs -> Submission]
    BY <2>3 DEF Submission
  <2>9. \A r \in Rpcs : tried[r] = "none" <=> attempt[m][r] = "none"
    BY <2>3, <2>4
  <2> QED  BY <1>t, <2>1, <2>2, <2>4, <2>5, <2>6, <2>7, <2>8, <2>9, NextEndpointSafe
<1>13. ASSUME NEW m \in Markets, NEW r \in Rpcs, SubmissionStep(m, r) PROVE Safe'
  <2>1. /\ attempt \in [Markets -> [Rpcs -> Submission]]
        /\ current \in [Markets -> Rpcs \cup {NoAttempt}]
        /\ count \in [Markets -> Nat]
    BY <1>t DEF TypeOK
  <2>2. PICK v \in {"mined", "failed"} :
             attempt[m][r] = "pending" /\ attempt' = [attempt EXCEPT ![m] = [attempt[m] EXCEPT ![r] = v]]
    BY <1>13 DEF SubmissionStep, Mine, LateFailure
  <2>3. /\ \A n \in Markets : n # m => attempt'[n] = attempt[n]
        /\ \A x \in Rpcs : x # r => attempt'[m][x] = attempt[m][x]
        /\ attempt'[m][r] = v
    BY <2>1, <2>2
  <2>4. \A n \in Markets : \A x \in Rpcs : attempt'[n][x] = "none" <=> attempt[n][x] = "none"
    BY <2>2, <2>3
  <2>5. UNCHANGED <<taskVars, profit, submissions>>
    BY <1>13 DEF SubmissionStep, Mine, LateFailure
  <2>6. CASE current[m] = r
    <3>1. Mine(m, r)  BY <1>13, <2>6 DEF SubmissionStep, LateFailure
    <3>2. job[m] = "round"
      BY <1>t, <2>6, RpcsType DEF Safe, RoundInv
    <3>3. ~(Cardinality(bound) >= 2)
      BY <1>t, <3>2, QuorumUnderWriting DEF Writing
    <3>4. FinishRound(m, count[m])  BY <2>6, <3>1 DEF Mine
    <3>5. \A x \in Rpcs : attempt'[m][x] = "none" => submissions'[m][x] = 0
      BY <1>t, <2>4, <2>5 DEF Safe, RoundInv
    <3>6. count[m] \in Nat  BY <2>1
    <3> QED  BY <1>t, <2>3, <2>5, <3>2, <3>3, <3>4, <3>5, <3>6, FinishRoundSafe
  <2>7. CASE current[m] # r
    <3>1. /\ UNCHANGED <<statusVars, job, current>>
          /\ \A n \in Markets : count[n] <= count'[n]
      <4>1. CASE Mine(m, r)  BY <2>1, <2>7, <4>1 DEF Mine
      <4>2. CASE LateFailure(m, r)  BY <2>1, <4>2 DEF LateFailure
      <4> QED  BY <1>13, <4>1, <4>2 DEF SubmissionStep
    <3>2. StatusesInv' /\ QuorumInv' /\ TaskInv' /\ RecordedStatuses'
      BY <1>t, <2>5, <3>1 DEF Safe, StatusesInv, QuorumInv, TaskInv, RecordedStatuses,
                              RoundOver, Writing, MarketsOf
    <3>3. ASSUME NEW n \in Markets PROVE RoundInv(n)'
      <4>1. job[n] = "round" => current[n] \in Rpcs /\ attempt'[n][current[n]] = "pending"
        BY <1>t, <2>3, <2>7 DEF Safe, RoundInv
      <4>2. job[n] = "round" => current[n] <= count'[n]
        <5>1. SUFFICES ASSUME job[n] = "round" PROVE current[n] <= count'[n]
          OBVIOUS
        <5>2. current[n] \in Rpcs /\ current[n] <= count[n]
          BY <1>t, <5>1 DEF Safe, RoundInv
        <5>3. count' \in [Markets -> Nat]  BY <1>t DEF TypeOK
        <5>4. current[n] \in Nat /\ count[n] \in Nat /\ count'[n] \in Nat
          BY <2>1, <5>2, <5>3, RpcsType
        <5> QED  BY <3>1, <5>2, <5>4
      <4> QED  BY <1>t, <2>4, <2>5, <3>1, <4>1, <4>2 DEF Safe, RoundInv, RoundOver, BinanceMissing
    <3> QED  BY <3>2, <3>3 DEF Safe
  <2> QED  BY <2>6, <2>7
<1>14. CASE UNCHANGED vars
  BY <1>1, <1>14
<1> QED
  BY <1>2, <1>3, <1>4, <1>5, <1>6, <1>7, <1>8, <1>9, <1>10, <1>11, <1>12, <1>13, <1>14
  DEF Next, QueryStep, ProfitStep

LEMMA Invariance == Spec => []IInv
<1>1. Init => IInv
  <2> SUFFICES ASSUME Init PROVE IInv
    OBVIOUS
  <2>1. TypeOK
    BY InitTypeOK
  <2>2. StatusesInv /\ QuorumInv /\ TaskInv /\ RecordedStatuses
    BY DEF Init, StatusesInv, QuorumInv, TaskInv, RecordedStatuses, MarketsOf, Writing, RoundOver
  <2>3. ASSUME NEW m \in Markets PROVE RoundInv(m)
    BY DEF Init, RoundInv, RoundOver
  <2> QED  BY <2>1, <2>2, <2>3 DEF IInv, Safe
<1> QED  BY <1>1, Inductive, PTL DEF Spec

\* A minute in which two or more exchanges are missing writes no price to any
\* market, for any number of markets whose rounds clear the shared list.
THEOREM QuorumSafety == Spec => []NoWriteWithoutQuorum
<1>1. IInv => NoWriteWithoutQuorum
  <2> SUFFICES ASSUME IInv, Cardinality(bound) >= 2, NEW m \in Markets
               PROVE ~Writing(m) /\ Attempted(m) = {}
    BY DEF NoWriteWithoutQuorum
  <2>1. ~Writing(m) /\ ~RoundOver(m)  BY DEF IInv, Safe, QuorumInv
  <2> QED  BY <2>1 DEF IInv, Safe, RoundInv, Writing, Attempted
<1> QED  BY <1>1, Invariance, PTL

\* What a job tested before its awaits still holds while it writes.
THEOREM GuardSafety == Spec => []GuardOutlivesAwaits
<1>1. IInv => GuardOutlivesAwaits
  <2> SUFFICES ASSUME IInv, NEW m \in Markets, Writing(m)
               PROVE /\ Cardinality(dataProviderStatuses) < 2
                     /\ job[m] = "round" /\ BinanceMissing => profit[m] = "ok"
    BY DEF GuardOutlivesAwaits
  <2>1. dataProviderStatuses \in {bound, {}}  BY DEF IInv, Safe, StatusesInv
  <2>2. ~(Cardinality(bound) >= 2)  BY QuorumUnderWriting DEF IInv
  <2>3. Cardinality(bound) \in Nat /\ Cardinality({}) = 0  BY BoundCardinality DEF IInv
  <2>4. Cardinality(dataProviderStatuses) < 2  BY <2>1, <2>2, <2>3
  <2> QED  BY <2>4 DEF IInv, Safe, RoundInv
<1> QED  BY <1>1, Invariance, PTL

\* No endpoint is handed a market's round twice in a minute.
THEOREM EndpointSafety == Spec => []EndpointsOnce
<1>1. IInv => EndpointsOnce
  BY DEF IInv, Safe, RoundInv, EndpointsOnce
<1> QED  BY <1>1, Invariance, PTL

\* A stored candle names the missing exchanges, or none once the list is cleared.
THEOREM RecordSafety == Spec => []RecordedStatuses
<1>1. IInv => RecordedStatuses
  BY DEF IInv, Safe
<1> QED  BY <1>1, Invariance, PTL

-----------------------------------------------------------------------------
(***************************************************************************)
(* RoundExecution implements PriceWriting.                                 *)
(***************************************************************************)
ClosedMarkets == {m \in Markets : job[m] \in Ended}
Tried == [m \in Markets |-> Attempted(m)]
Mined == [m \in Markets |-> {r \in Rpcs : attempt[m][r] = "mined"}]

\* A step that tries and mines nothing and ends at most the job of m.
LEMMA ClosingStep ==
  ASSUME NEW m \in Markets,
         bound' = bound, Tried' = Tried, Mined' = Mined,
         \A n \in Markets : n # m => (job'[n] \in Ended <=> job[n] \in Ended),
         job[m] \in Ended => job'[m] \in Ended
  PROVE  [PW!Next]_PW!vars
<1>1. ClosedMarkets' = ClosedMarkets \/ ClosedMarkets' = ClosedMarkets \cup {m}
  BY DEF ClosedMarkets
<1>2. CASE ClosedMarkets' = ClosedMarkets
  BY <1>2 DEF PW!vars, ClosedMarkets, Tried, Mined
<1>3. CASE ClosedMarkets' = ClosedMarkets \cup {m}
  BY <1>3 DEF PW!Next, PW!Close, ClosedMarkets, Tried, Mined
<1> QED  BY <1>1, <1>2, <1>3

\* A step in which neither the jobs nor the submissions change.
LEMMA QuietStep ==
  ASSUME UNCHANGED <<bound, job, attempt>>
  PROVE  [PW!Next]_PW!vars
  BY DEF PW!vars, Attempted

\* The head of executeRound's loop submits through one more endpoint or ends.
LEMMA NextEndpointStep ==
  ASSUME TypeOK, Safe, NEW m \in Markets, NEW c \in Nat, NEW tried \in [Rpcs -> Submission],
         NextEndpoint(m, c, tried),
         job[m] \notin Ended,
         ~(Cardinality(bound) >= 2),
         \A r \in Rpcs : tried[r] = "none" <=> attempt[m][r] = "none",
         \A r \in Rpcs : tried[r] = "mined" <=> attempt[m][r] = "mined",
         \A r \in Rpcs : tried[r] # "none" => r < c
  PROVE  [PW!Next]_PW!vars
<1>1. job \in [Markets -> JobStates] /\ attempt \in [Markets -> [Rpcs -> Submission]]
  BY DEF TypeOK
<1>2. CASE c < RpcCount /\ ~OutOfTime
  <2>1. c \in Rpcs  BY <1>2, RpcsType DEF Rpcs
  <2>2. /\ attempt' = [attempt EXCEPT ![m] = [tried EXCEPT ![c] = "pending"]]
        /\ job' = [job EXCEPT ![m] = "round"]
        /\ bound' = bound
    BY <1>2 DEF NextEndpoint, statusVars
  <2>3. attempt'[m] = [tried EXCEPT ![c] = "pending"] /\ \A n \in Markets : n # m => attempt'[n] = attempt[n]
    BY <1>1, <2>2
  <2>4. ClosedMarkets' = ClosedMarkets
    BY <1>1, <2>2 DEF ClosedMarkets, Ended
  <2>5. Tried' = [Tried EXCEPT ![m] = Tried[m] \cup {c}]
    <3>1. Attempted(m)' = Attempted(m) \cup {c}
      <4>1. \A r \in Rpcs : attempt'[m][r] = IF r = c THEN "pending" ELSE tried[r]
        BY <2>1, <2>3
      <4> QED  BY <2>1, <4>1 DEF Attempted
    <3>2. \A n \in Markets : n # m => Attempted(n)' = Attempted(n)
      BY <2>3 DEF Attempted
    <3> QED  BY <3>1, <3>2 DEF Tried
  <2>6. Mined' = Mined
    <3>1. tried[c] = "none"
      <4>1. ~(c < c)  BY <2>1, RpcsType
      <4> QED  BY <2>1, <4>1
    <3>2. \A r \in Rpcs : attempt'[m][r] = "mined" <=> attempt[m][r] = "mined"
      <4>1. \A r \in Rpcs : r # c => attempt'[m][r] = tried[r]
        BY <2>3
      <4>2. attempt'[m][c] = "pending"
        BY <2>1, <2>3
      <4>3. attempt[m][c] # "mined"
        BY <2>1, <3>1
      <4> QED  BY <4>1, <4>2, <4>3
    <3>3. \A n \in Markets : {r \in Rpcs : attempt'[n][r] = "mined"} = {r \in Rpcs : attempt[n][r] = "mined"}
      <4>1. {r \in Rpcs : attempt'[m][r] = "mined"} = {r \in Rpcs : attempt[m][r] = "mined"}
        BY <3>2
      <4>2. \A n \in Markets \ {m} : attempt'[n] = attempt[n]
        BY <2>3
      <4> QED  BY <4>1, <4>2
    <3> QED  BY <3>3 DEF Mined
  <2>7. \A x \in Tried[m] : x < c
    BY DEF Tried, Attempted
  <2>8. Cardinality(bound) < 2
    <3>1. Cardinality(bound) \in Nat  BY BoundCardinality
    <3> QED  BY <3>1
  <2>9. m \notin ClosedMarkets
    BY DEF ClosedMarkets
  <2>10. PW!Submit(m, c)
    <3>1. m \notin {n \in Markets : job[n] \in Ended}
      BY <2>9 DEF ClosedMarkets
    <3>2. \A x \in [n \in Markets |-> Attempted(n)][m] : x < c
      BY <2>7 DEF Tried
    <3>3. [n \in Markets |-> Attempted(n)]' =
            [[n \in Markets |-> Attempted(n)] EXCEPT ![m] = [n \in Markets |-> Attempted(n)][m] \cup {c}]
      BY <2>5 DEF Tried
    <3>4. UNCHANGED <<bound, {n \in Markets : job[n] \in Ended},
                      [n \in Markets |-> {r \in Rpcs : attempt[n][r] = "mined"}]>>
      BY <2>2, <2>4, <2>6 DEF ClosedMarkets, Mined
    <3>5. PW!Cardinality(bound) = Cardinality(bound)
      BY DEF PW!Cardinality, Cardinality
    <3> QED  BY <2>8, <3>1, <3>2, <3>3, <3>4, <3>5 DEF PW!Submit
  <2> QED  BY <2>1, <2>10 DEF PW!Next
<1>3. CASE ~(c < RpcCount /\ ~OutOfTime)
  <2>1. attempt' = [attempt EXCEPT ![m] = tried] /\ FinishRound(m, c)
    BY <1>3 DEF NextEndpoint
  <2>2. attempt'[m] = tried /\ \A n \in Markets : n # m => attempt'[n] = attempt[n]
    BY <1>1, <2>1
  <2>3. Tried' = Tried /\ Mined' = Mined
    <3>1. \A n \in Markets : \A r \in Rpcs :
            /\ attempt'[n][r] # "none" <=> attempt[n][r] # "none"
            /\ attempt'[n][r] = "mined" <=> attempt[n][r] = "mined"
      BY <2>2
    <3> QED  BY <3>1 DEF Tried, Mined, Attempted
  <2>4. bound' = bound /\ \A n \in Markets : n # m => job'[n] = job[n]
    BY <1>1, <2>1 DEF FinishRound
  <2> QED  BY <2>3, <2>4, ClosingStep
<1> QED  BY <1>2, <1>3

LEMMA StepRefines == IInv /\ [Next]_vars => [PW!Next]_PW!vars
<1> SUFFICES ASSUME IInv, [Next]_vars PROVE [PW!Next]_PW!vars
  OBVIOUS
<1> USE DEF vars, clockVars, statusVars, taskVars, queryVars, roundVars
<1>t. TypeOK /\ Safe
  BY DEF IInv
<1>j. /\ job \in [Markets -> JobStates]
      /\ attempt \in [Markets -> [Rpcs -> Submission]]
  BY <1>t DEF TypeOK
<1>m. ASSUME NEW m \in Markets, NEW v, job' = [job EXCEPT ![m] = v], job[m] \notin Ended,
             UNCHANGED <<bound, attempt>>
      PROVE [PW!Next]_PW!vars
  <2>1. Tried' = Tried /\ Mined' = Mined  BY <1>m DEF Tried, Mined, Attempted
  <2>2. \A n \in Markets : n # m => job'[n] = job[n]  BY <1>m, <1>j
  <2> QED  BY <1>m, <2>1, <2>2, ClosingStep
<1>1. CASE Tick
  BY <1>1, QuietStep DEF Tick
<1>2. ASSUME NEW p \in DataProviders, MissingFetchFails(p) PROVE [PW!Next]_PW!vars
  BY <1>2, QuietStep DEF MissingFetchFails
<1>3. ASSUME NEW s \in Symbols, TaskStep(s) PROVE [PW!Next]_PW!vars
  <2>1. CASE UNCHANGED job
    BY <1>3, <2>1, QuietStep DEF TaskStep, SaveDefault, SkipWrite, StartWrite, JoinMarkets
  <2>2. CASE StartWrite(s)
    <3>1. \A m \in Markets : job'[m] = job[m] \/ (job[m] = "idle" /\ job'[m] = "block")
      BY <1>t, <2>2 DEF Safe, TaskInv, StartWrite
    <3>2. ClosedMarkets' = ClosedMarkets
      BY <3>1 DEF ClosedMarkets, Ended
    <3>3. Tried' = Tried /\ Mined' = Mined /\ bound' = bound
      BY <2>2 DEF StartWrite, Tried, Mined, Attempted
    <3> QED  BY <3>2, <3>3 DEF PW!vars, ClosedMarkets, Tried, Mined
  <2> QED  BY <1>3, <2>1, <2>2 DEF TaskStep, SaveDefault, SkipWrite, JoinMarkets
<1>4. ASSUME NEW m \in Markets, PollBlock(m) \/ QueryFails(m) PROVE [PW!Next]_PW!vars
  <2>1. UNCHANGED <<bound, attempt>> /\ job[m] \in {"block", "timeframes"}
    BY <1>4 DEF PollBlock, PollEnds, PollAgain, QueryFails
  <2>2. CASE UNCHANGED job
    BY <2>1, <2>2, QuietStep
  <2>3. CASE \E i : QueryEndpoint(m, i)
    <3>1. \E v : job' = [job EXCEPT ![m] = v]  BY <2>3 DEF QueryEndpoint, NoTimeframes
    <3> QED  BY <1>m, <2>1, <3>1 DEF Ended
  <2> QED  BY <1>4, <2>2, <2>3 DEF PollBlock, PollEnds, PollAgain, QueryFails
<1>5. ASSUME NEW m \in Markets, QueryNothingDue(m) \/ MakeActivity(m) \/ ProfitUnknown(m)
      PROVE [PW!Next]_PW!vars
  <2>1. UNCHANGED <<bound, attempt>> /\ job[m] \in {"timeframes", "activity", "profit"}
    BY <1>5 DEF QueryNothingDue, MakeActivity, ProfitUnknown
  <2>2. \E v : job' = [job EXCEPT ![m] = v]
    BY <1>5 DEF QueryNothingDue, MakeActivity, ProfitUnknown, NoTimeframes
  <2> QED  BY <1>m, <2>1, <2>2 DEF Ended
<1>6. ASSUME NEW m \in Markets, QueryDue(m) \/ ProfitKnown(m) PROVE [PW!Next]_PW!vars
  <2>1. job[m] \in {"timeframes", "profit"}
    BY <1>6 DEF QueryDue, ProfitKnown
  <2>2. CASE NextEndpoint(m, 0, attempt[m])
    <3>1. \A r \in Rpcs : attempt[m][r] = "none"
      BY <1>t, <2>1 DEF Safe, RoundInv, RoundOver
    <3>2. ~(Cardinality(bound) >= 2)
      <4>1. CASE job[m] = "profit"  BY <1>t, <4>1, QuorumUnderWriting DEF Writing
      <4>2. CASE job[m] = "timeframes"
        <5>1. job'[m] \in {"round", "true", "threw"}
          BY <1>j, <2>2 DEF NextEndpoint, FinishRound
        <5>2. Safe' /\ bound' = bound  BY Inductive, <2>2 DEF IInv, NextEndpoint, FinishRound
        <5> QED  BY <5>1, <5>2 DEF Safe, QuorumInv, Writing, RoundOver
      <4> QED  BY <2>1, <4>1, <4>2
    <3>3. attempt[m] \in [Rpcs -> Submission]  BY <1>j
    <3> QED  BY <1>t, <2>1, <2>2, <3>1, <3>2, <3>3, NextEndpointStep DEF Ended
  <2>3. CASE \E v : job' = [job EXCEPT ![m] = v] /\ UNCHANGED <<bound, attempt>>
    BY <1>m, <2>1, <2>3 DEF Ended
  <2> QED  BY <1>6, <2>2, <2>3 DEF QueryDue, ProfitKnown
<1>7. ASSUME NEW m \in Markets, RoundFails(m) \/ RoundTimeout(m) PROVE [PW!Next]_PW!vars
  <2>1. job[m] = "round"
    BY <1>7 DEF RoundFails, RoundTimeout
  <2>2. /\ count[m] \in Nat
        /\ attempt[m] \in [Rpcs -> Submission]
    <3>1. count \in [Markets -> Nat]  BY <1>t DEF TypeOK
    <3> QED  BY <1>j, <3>1
  <2>3. /\ current[m] \in Rpcs
        /\ current[m] <= count[m]
        /\ attempt[m][current[m]] = "pending"
        /\ \A r \in Rpcs : attempt[m][r] # "none" => r <= current[m]
    BY <1>t, <2>1 DEF Safe, RoundInv
  <2>4. PICK c \in {count[m] + 1, count[m] + 2},
             tried \in {attempt[m], [attempt[m] EXCEPT ![current[m]] = "failed"]} :
             NextEndpoint(m, c, tried)
    BY <1>7 DEF RoundFails, RoundTimeout
  <2>5. c \in Nat /\ tried \in [Rpcs -> Submission]
    BY <2>2 DEF Submission
  <2>6. \A r \in Rpcs :
          /\ tried[r] = "none" <=> attempt[m][r] = "none"
          /\ tried[r] = "mined" <=> attempt[m][r] = "mined"
    BY <2>2, <2>3
  <2>7. \A r \in Rpcs : tried[r] # "none" => r < c
    <3>1. SUFFICES ASSUME NEW r \in Rpcs, tried[r] # "none" PROVE r < c
      OBVIOUS
    <3>2. r \in Nat /\ current[m] \in Nat  BY <2>3, RpcsType
    <3>3. r <= current[m]  BY <2>3, <2>6, <3>1
    <3> QED  BY <2>2, <2>3, <3>2, <3>3
  <2>8. ~(Cardinality(bound) >= 2)
    BY <1>t, <2>1, QuorumUnderWriting DEF Writing
  <2>9. job[m] \notin Ended
    BY <2>1 DEF Ended
  <2> QED  BY <1>t, <2>4, <2>5, <2>6, <2>7, <2>8, <2>9, NextEndpointStep
<1>8. ASSUME NEW m \in Markets, NEW r \in Rpcs, Mine(m, r) PROVE [PW!Next]_PW!vars
  <2>1. attempt[m][r] = "pending" /\ attempt' = [attempt EXCEPT ![m] = [attempt[m] EXCEPT ![r] = "mined"]]
    BY <1>8 DEF Mine
  <2>2. /\ attempt'[m] = [attempt[m] EXCEPT ![r] = "mined"]
        /\ \A n \in Markets : n # m => attempt'[n] = attempt[n]
    BY <1>j, <2>1
  <2>3. Tried' = Tried
    <3>1. \A n \in Markets : \A x \in Rpcs : attempt'[n][x] # "none" <=> attempt[n][x] # "none"
      BY <1>j, <2>1, <2>2
    <3> QED  BY <3>1 DEF Tried, Attempted
  <2>4. Mined' = [Mined EXCEPT ![m] = Mined[m] \cup {r}]
    <3>1. {x \in Rpcs : attempt'[m][x] = "mined"} = {x \in Rpcs : attempt[m][x] = "mined"} \cup {r}
      <4>1. attempt[m] \in [Rpcs -> Submission]  BY <1>j
      <4>2. \A x \in Rpcs : attempt'[m][x] = IF x = r THEN "mined" ELSE attempt[m][x]
        BY <2>2, <4>1
      <4> QED  BY <4>2
    <3>2. \A n \in Markets \ {m} : {x \in Rpcs : attempt'[n][x] = "mined"} = {x \in Rpcs : attempt[n][x] = "mined"}
      BY <2>2
    <3>3. Mined'[m] = Mined[m] \cup {r} /\ \A n \in Markets \ {m} : Mined'[n] = Mined[n]
      BY <3>1, <3>2 DEF Mined
    <3> QED  BY <3>3 DEF Mined
  <2>5. r \in Tried[m] \ Mined[m]
    BY <2>1 DEF Tried, Mined, Attempted
  <2>6. ClosedMarkets' \in {ClosedMarkets, ClosedMarkets \cup {m}} /\ bound' = bound
    <3>1. CASE current[m] = r
      <4>1. FinishRound(m, count[m])  BY <1>8, <3>1 DEF Mine
      <4>2. job'[m] \in Ended /\ bound' = bound /\ \A n \in Markets : n # m => job'[n] = job[n]
        BY <1>j, <4>1 DEF FinishRound, Ended
      <4> QED  BY <4>2 DEF ClosedMarkets
    <3>2. CASE current[m] # r
      BY <1>8, <3>2 DEF Mine, ClosedMarkets
    <3> QED  BY <3>1, <3>2
  <2>7. PW!Land(m, r)
    BY <2>3, <2>4, <2>5, <2>6 DEF PW!Land, ClosedMarkets, Tried, Mined
  <2> QED  BY <2>7 DEF PW!Next
<1>9. ASSUME NEW m \in Markets, NEW r \in Rpcs, LateFailure(m, r) PROVE [PW!Next]_PW!vars
  <2>1. attempt[m][r] = "pending" /\ attempt' = [attempt EXCEPT ![m] = [attempt[m] EXCEPT ![r] = "failed"]]
    BY <1>9 DEF LateFailure
  <2>2. \A n \in Markets : \A x \in Rpcs :
          /\ attempt'[n][x] # "none" <=> attempt[n][x] # "none"
          /\ attempt'[n][x] = "mined" <=> attempt[n][x] = "mined"
    BY <1>j, <2>1
  <2>3. Tried' = Tried /\ Mined' = Mined
    BY <2>2 DEF Tried, Mined, Attempted
  <2> QED  BY <1>9, <2>3, ClosingStep DEF LateFailure
<1>10. CASE UNCHANGED vars
  BY <1>10, QuietStep
<1> QED
  BY <1>1, <1>2, <1>3, <1>4, <1>5, <1>6, <1>7, <1>8, <1>9, <1>10
  DEF Next, QueryStep, ProfitStep, SubmissionStep

\* Every behaviour of the jobs is a behaviour of PriceWriting: submissions only
\* with a quorum, through each endpoint once and in order, none after the end.
THEOREM Refinement == Spec => ImplementsPriceWriting
<1>1. Init => PW!Init
  <2> SUFFICES ASSUME Init PROVE PW!Init
    OBVIOUS
  <2>1. ClosedMarkets = {}
    BY DEF Init, ClosedMarkets, Ended
  <2>2. \A m \in Markets : Attempted(m) = {} /\ {r \in Rpcs : attempt[m][r] = "mined"} = {}
    BY DEF Init, Attempted
  <2> QED  BY <2>1, <2>2 DEF Init, PW!Init, ClosedMarkets
<1>2. Spec => PW!Spec
  BY <1>1, StepRefines, Invariance, PTL DEF Spec, PW!Spec
<1> QED  BY <1>2 DEF ImplementsPriceWriting

-----------------------------------------------------------------------------
(***************************************************************************)
(* How far count runs ahead of the endpoints.                              *)
(***************************************************************************)
Pending(m) == {r \in Rpcs : attempt[m][r] = "pending"}

\* An endpoint counts for two once its submission has failed, and for one
\* while that is under way and not awaited any more.
CountInv(m) ==
    job[m] = "round" =>
        count[m] + Cardinality(Pending(m)) + 1 <= 2 * Cardinality(Attempted(m))

LEMMA EndpointSets ==
  ASSUME NEW S \in SUBSET Rpcs
  PROVE  IsFiniteSet(S) /\ Cardinality(S) \in Nat
<1>1. RpcCount - 1 \in Int  BY ConstantsAssumption
<1>2. IsFiniteSet(Rpcs)  BY <1>1, FS_Interval DEF Rpcs
<1> QED  BY <1>2, FS_Subset, FS_CardinalityType

\* The head of the loop uses an endpoint no submission was made through.
LEMMA HeadCounts ==
  ASSUME TypeOK, NEW m \in Markets, NEW c \in Nat, NEW tried \in [Rpcs -> Submission],
         NextEndpoint(m, c, tried),
         \A r \in Rpcs : tried[r] # "none" => r < c,
         c + Cardinality({r \in Rpcs : tried[r] = "pending"})
           <= 2 * Cardinality({r \in Rpcs : tried[r] # "none"})
  PROVE  CountInv(m)'
<1> DEFINE waiting == {r \in Rpcs : tried[r] = "pending"}
           used == {r \in Rpcs : tried[r] # "none"}
<1>1. /\ job \in [Markets -> JobStates]
      /\ count \in [Markets -> Nat]
      /\ attempt \in [Markets -> [Rpcs -> Submission]]
  BY DEF TypeOK
<1>2. CASE c < RpcCount /\ ~OutOfTime
  <2>1. c \in Rpcs  BY <1>2, RpcsType DEF Rpcs
  <2>2. count'[m] = c /\ attempt'[m] = [tried EXCEPT ![c] = "pending"]
    BY <1>1, <1>2 DEF NextEndpoint
  <2>3. tried[c] = "none"  BY <2>1
  <2>4. Pending(m)' = waiting \cup {c} /\ c \notin waiting
    BY <2>1, <2>2, <2>3 DEF Pending
  <2>5. Attempted(m)' = used \cup {c} /\ c \notin used
    BY <2>1, <2>2, <2>3 DEF Attempted
  <2>6. /\ Cardinality(waiting \cup {c}) = Cardinality(waiting) + 1
        /\ Cardinality(used \cup {c}) = Cardinality(used) + 1
        /\ Cardinality(waiting) \in Nat /\ Cardinality(used) \in Nat
    BY <2>4, <2>5, EndpointSets, FS_AddElement
  <2> HIDE DEF waiting, used
  <2>7. c + Cardinality(waiting) <= 2 * Cardinality(used)  BY DEF waiting, used
  <2>8. c + (Cardinality(waiting) + 1) + 1 <= 2 * (Cardinality(used) + 1)
    BY <2>6, <2>7
  <2> QED  BY <2>2, <2>4, <2>5, <2>6, <2>8 DEF CountInv
<1>3. CASE ~(c < RpcCount /\ ~OutOfTime)
  <2>1. job'[m] # "round"  BY <1>1, <1>3 DEF NextEndpoint, FinishRound
  <2> QED  BY <2>1 DEF CountInv
<1> QED  BY <1>2, <1>3

\* What a step does to a market's round.
LEMMA RoundSteps ==
  ASSUME IInv, [Next]_vars, NEW m \in Markets
  PROVE  \/ job[m] # "round" /\ job'[m] # "round"
         \/ job'[m] = job[m] /\ count'[m] = count[m] /\ attempt'[m] = attempt[m]
         \/ job[m] \in {"timeframes", "profit"} /\ NextEndpoint(m, 0, attempt[m])
         \/ RoundFails(m)
         \/ RoundTimeout(m)
         \/ \E r \in Rpcs : SubmissionStep(m, r)
<1> DEFINE Apart == job'[m] = job[m] /\ count'[m] = count[m] /\ attempt'[m] = attempt[m]
           Outside == job[m] # "round" /\ job'[m] # "round"
<1> USE DEF roundVars
<1>1. /\ job \in [Markets -> JobStates]
      /\ count \in [Markets -> Nat]
      /\ attempt \in [Markets -> [Rpcs -> Submission]]
  BY DEF IInv, TypeOK
<1>2. ASSUME NEW n \in Markets, n # m, NEW c, NEW tried, NextEndpoint(n, c, tried)
      PROVE  Apart
  BY <1>1, <1>2 DEF NextEndpoint, FinishRound
<1>3. CASE Tick \/ UNCHANGED vars \/ \E p \in DataProviders : MissingFetchFails(p)
  BY <1>3 DEF Tick, MissingFetchFails, vars
<1>4. ASSUME NEW s \in Symbols, TaskStep(s) PROVE Apart \/ Outside
  <2>1. CASE UNCHANGED job
    BY <1>4, <2>1 DEF TaskStep, SaveDefault, SkipWrite, StartWrite, JoinMarkets
  <2>2. CASE StartWrite(s)
    <3>1. job'[m] = job[m] \/ (job[m] = "idle" /\ job'[m] = "block")
      <4>1. task[s] = "pricing" /\ job'[m] = IF m \in MarketsOf(s) THEN "block" ELSE job[m]
        BY <2>2 DEF StartWrite
      <4>2. m \in MarketsOf(s) => job[m] = "idle"
        BY <4>1 DEF IInv, Safe, TaskInv
      <4> QED  BY <4>1, <4>2
    <3> QED  BY <2>2, <3>1 DEF StartWrite
  <2> QED  BY <1>4, <2>1, <2>2 DEF TaskStep, SaveDefault, SkipWrite, JoinMarkets
<1>5. ASSUME NEW n \in Markets, PollBlock(n) \/ QueryFails(n) \/ QueryNothingDue(n)
                                  \/ MakeActivity(n) \/ ProfitUnknown(n)
      PROVE  Apart \/ Outside
  <2>1. /\ job[n] # "round" /\ UNCHANGED roundVars
        /\ \E v \in JobStates \ {"round"} : job' = [job EXCEPT ![n] = v]
    <3>1. CASE PollBlock(n) \/ QueryFails(n)
      BY <1>1, <3>1 DEF PollBlock, PollEnds, PollAgain, QueryFails, QueryEndpoint, NoTimeframes, JobStates
    <3>2. CASE QueryNothingDue(n) \/ MakeActivity(n) \/ ProfitUnknown(n)
      BY <1>1, <3>2 DEF QueryNothingDue, MakeActivity, ProfitUnknown, NoTimeframes, JobStates
    <3> QED  BY <1>5, <3>1, <3>2
  <2> QED  BY <1>1, <2>1
<1>6. ASSUME NEW n \in Markets, QueryDue(n) \/ ProfitKnown(n)
      PROVE  Apart \/ Outside \/ (job[m] \in {"timeframes", "profit"} /\ NextEndpoint(m, 0, attempt[m]))
  <2>1. job[n] \in {"timeframes", "profit"}  BY <1>6 DEF QueryDue, ProfitKnown
  <2>2. CASE NextEndpoint(n, 0, attempt[n])
    BY <1>2, <2>1, <2>2
  <2>3. CASE UNCHANGED roundVars /\ \E v \in {"untrusted", "profit"} : job' = [job EXCEPT ![n] = v]
    BY <1>1, <2>1, <2>3
  <2> QED  BY <1>6, <2>2, <2>3 DEF QueryDue, ProfitKnown
<1>7. ASSUME NEW n \in Markets, n # m, RoundFails(n) \/ RoundTimeout(n) PROVE Apart
  BY <1>2, <1>7 DEF RoundFails, RoundTimeout
<1>8. ASSUME NEW n \in Markets, n # m, NEW r \in Rpcs, SubmissionStep(n, r) PROVE Apart
  BY <1>1, <1>8 DEF SubmissionStep, Mine, LateFailure, FinishRound
<1> QED
  BY <1>3, <1>4, <1>5, <1>6, <1>7, <1>8 DEF Next, QueryStep, ProfitStep

LEMMA CountStep ==
  ASSUME IInv, [Next]_vars, NEW m \in Markets, CountInv(m)
  PROVE  /\ CountInv(m)'
         /\ /\ job[m] = "round" /\ job'[m] # "round"
            /\ ~OutOfTime'
            /\ \A r \in Rpcs : attempt'[m][r] # "mined"
            => 2 * Cardinality(Attempted(m)') >= RpcCount
<1> DEFINE Half == /\ job[m] = "round" /\ job'[m] # "round"
                   /\ ~OutOfTime'
                   /\ \A r \in Rpcs : attempt'[m][r] # "mined"
                   => 2 * Cardinality(Attempted(m)') >= RpcCount
<1>1. /\ TypeOK
      /\ job \in [Markets -> JobStates]
      /\ count \in [Markets -> Nat]
      /\ attempt \in [Markets -> [Rpcs -> Submission]]
  BY DEF IInv, TypeOK
<1>2. /\ Pending(m) \in SUBSET Rpcs /\ Attempted(m) \in SUBSET Rpcs
      /\ attempt[m] \in [Rpcs -> Submission] /\ count[m] \in Nat
  BY <1>1 DEF Pending, Attempted
<1>3. /\ IsFiniteSet(Pending(m)) /\ Cardinality(Pending(m)) \in Nat
      /\ Cardinality(Attempted(m)) \in Nat
  BY <1>2, EndpointSets
<1>4. CASE job[m] # "round" /\ job'[m] # "round"
  BY <1>4 DEF CountInv
<1>5. CASE job'[m] = job[m] /\ count'[m] = count[m] /\ attempt'[m] = attempt[m]
  BY <1>5 DEF CountInv, Pending, Attempted
<1>6. CASE job[m] \in {"timeframes", "profit"} /\ NextEndpoint(m, 0, attempt[m])
  <2>1. \A r \in Rpcs : attempt[m][r] = "none"
    BY <1>6 DEF IInv, Safe, RoundInv, RoundOver
  <2>2. {r \in Rpcs : attempt[m][r] = "pending"} = {} /\ {r \in Rpcs : attempt[m][r] # "none"} = {}
    BY <2>1
  <2>3. CountInv(m)'
    BY <1>1, <1>2, <1>6, <2>1, <2>2, HeadCounts, FS_EmptySet
  <2> QED  BY <1>6, <2>3
<1>7. CASE RoundFails(m) \/ RoundTimeout(m)
  <2>1. /\ current[m] \in Rpcs
        /\ current[m] <= count[m]
        /\ attempt[m][current[m]] = "pending"
        /\ \A r \in Rpcs : attempt[m][r] # "none" => r <= current[m]
    BY <1>7 DEF IInv, Safe, RoundInv, RoundFails, RoundTimeout
  <2>2. count[m] + Cardinality(Pending(m)) + 1 <= 2 * Cardinality(Attempted(m))
    BY <1>7 DEF CountInv, RoundFails, RoundTimeout
  <2> DEFINE tried == IF RoundFails(m) THEN [attempt[m] EXCEPT ![current[m]] = "failed"] ELSE attempt[m]
             c == IF RoundFails(m) THEN count[m] + 2 ELSE count[m] + 1
             waiting == {r \in Rpcs : tried[r] = "pending"}
             used == {r \in Rpcs : tried[r] # "none"}
  <2>3. NextEndpoint(m, c, tried) /\ UNCHANGED clockVars
    BY <1>7 DEF RoundFails, RoundTimeout
  <2>4. c \in Nat /\ c > count[m] /\ tried \in [Rpcs -> Submission]
    <3>1. [attempt[m] EXCEPT ![current[m]] = "failed"] \in [Rpcs -> Submission]
      BY <1>2 DEF Submission
    <3>2. c \in {count[m] + 1, count[m] + 2}
      OBVIOUS
    <3>3. c \in Nat /\ c > count[m]
      <4> HIDE DEF c
      <4> QED  BY <1>2, <3>2
    <3> QED  BY <1>2, <3>1, <3>3
  <2>5. used = Attempted(m)
    BY <1>2, <2>1 DEF Attempted
  <2>6. c + Cardinality(waiting) <= 2 * Cardinality(used)
    <3>1. CASE RoundFails(m)
      <4>1. current[m] \in Pending(m) /\ waiting = Pending(m) \ {current[m]}
        BY <1>2, <2>1, <3>1 DEF Pending
      <4>2. Cardinality(waiting) = Cardinality(Pending(m)) - 1
        BY <1>3, <4>1, FS_RemoveElement
      <4>3. c = count[m] + 2  BY <3>1
      <4> HIDE DEF c, waiting, used
      <4> QED  BY <1>2, <1>3, <2>2, <2>5, <4>2, <4>3
    <3>2. CASE ~RoundFails(m)
      <4>1. waiting = Pending(m)  BY <3>2 DEF Pending
      <4>2. c = count[m] + 1  BY <3>2
      <4> HIDE DEF c, waiting, used
      <4> QED  BY <1>2, <1>3, <2>2, <2>5, <4>1, <4>2
    <3> QED  BY <3>1, <3>2
  <2>7. \A r \in Rpcs : tried[r] # "none" => r < c
    <3>1. SUFFICES ASSUME NEW r \in Rpcs, tried[r] # "none" PROVE r < c
      OBVIOUS
    <3>2. r \in used  BY <3>1
    <3>3. attempt[m][r] # "none"  BY <2>5, <3>2 DEF Attempted
    <3>4. r \in Nat /\ current[m] \in Nat  BY <2>1, RpcsType
    <3> HIDE DEF c, tried, used
    <3> QED  BY <1>2, <2>1, <2>4, <3>3, <3>4
  <2>8. CountInv(m)'
    <3> HIDE DEF c, tried
    <3> QED  BY <1>1, <2>3, <2>4, <2>6, <2>7, HeadCounts
  <2>9. ASSUME job'[m] # "round", ~OutOfTime'
        PROVE  2 * Cardinality(Attempted(m)') >= RpcCount
    <3> HIDE DEF c, tried
    <3>1. ~OutOfTime  BY <2>3, <2>9 DEF OutOfTime, clockVars
    <3>2. ~(c < RpcCount)
      BY <1>1, <2>3, <2>9, <3>1 DEF NextEndpoint
    <3>3. attempt'[m] = tried
      BY <1>1, <2>3, <3>2 DEF NextEndpoint
    <3>4. Attempted(m)' = used
      BY <3>3 DEF Attempted
    <3>5. Cardinality(waiting) \in Nat /\ Cardinality(used) \in Nat
      BY EndpointSets
    <3> HIDE DEF waiting, used
    <3> QED  BY <2>4, <2>6, <3>2, <3>4, <3>5, RpcsType
  <2> QED  BY <2>8, <2>9
<1>8. ASSUME NEW r \in Rpcs, SubmissionStep(m, r) PROVE CountInv(m)' /\ Half
  <2>1. CASE current[m] = r
    <3>1. Mine(m, r)  BY <1>8, <2>1 DEF SubmissionStep, LateFailure
    <3>2. job'[m] # "round" /\ attempt'[m][r] = "mined"
      BY <1>1, <2>1, <3>1 DEF Mine, FinishRound
    <3> QED  BY <3>2 DEF CountInv
  <2>2. CASE current[m] # r
    <3>1. job' = job /\ attempt[m][r] = "pending"
      BY <1>8, <2>2 DEF SubmissionStep, Mine, LateFailure
    <3>2. PICK v \in {"mined", "failed"} :
               attempt' = [attempt EXCEPT ![m] = [attempt[m] EXCEPT ![r] = v]]
      BY <1>8 DEF SubmissionStep, Mine, LateFailure
    <3>3. attempt'[m] = [attempt[m] EXCEPT ![r] = v]
      BY <1>1, <3>2
    <3>4. r \in Pending(m) /\ Pending(m)' = Pending(m) \ {r}
      BY <1>2, <3>1, <3>3 DEF Pending
    <3>5. Attempted(m)' = Attempted(m)
      BY <1>2, <3>1, <3>3 DEF Attempted
    <3>6. Cardinality(Pending(m)') = Cardinality(Pending(m)) - 1
      BY <1>3, <3>4, FS_RemoveElement
    <3>7. job[m] = "round" => count'[m] \in {count[m], count[m] + 1}
      BY <1>1, <1>8, <2>2 DEF SubmissionStep, Mine, LateFailure
    <3>8. CountInv(m)'
      BY <1>2, <1>3, <3>1, <3>5, <3>6, <3>7 DEF CountInv
    <3> QED  BY <3>1, <3>8
  <2> QED  BY <2>1, <2>2
<1> QED  BY <1>4, <1>5, <1>6, <1>7, <1>8, RoundSteps

\* A round that gives up in time has been submitted through half of the
\* endpoints at least, for any number of them: the double counts of executeRound
\* never skip more.
THEOREM HalfIsTried == Spec => HalfTried
<1> DEFINE Counts == \A m \in Markets : CountInv(m)
           Half(m) == /\ job[m] = "round" /\ job'[m] # "round"
                      /\ ~OutOfTime'
                      /\ \A r \in Rpcs : attempt'[m][r] # "mined"
                      => 2 * Cardinality(Attempted(m)') >= RpcCount
           AllHalf == \A m \in Markets : Half(m)
<1>1. Init => Counts
  BY DEF Init, CountInv
<1>2. IInv /\ Counts /\ [Next]_vars => Counts' /\ AllHalf
  BY CountStep
<1>3. IInv /\ Counts /\ [Next]_vars => [AllHalf]_vars
  BY <1>2
<1>4. HalfTried <=> [][AllHalf]_vars
  BY DEF HalfTried
<1> HIDE DEF Counts, AllHalf
<1> QED  BY <1>1, <1>2, <1>3, <1>4, Invariance, PTL DEF Spec

-----------------------------------------------------------------------------
(***************************************************************************)
(* The jobs run down: each of a job's steps but the poll uses something up.*)
(***************************************************************************)
RunsDown(m) ==
    IF job'[m] = job[m] /\ rpc'[m] = rpc[m] /\ submissions'[m] = submissions[m]
    THEN StepsLeft(m)' <= StepsLeft(m)
    ELSE StepsLeft(m)' < StepsLeft(m)

\* What StepsLeft reads of a job.
Counted(m) ==
    /\ RpcCount \in Nat \ {0}
    /\ job[m] \in JobStates /\ rpc[m] \in 0..(RpcCount - 1)
    /\ revived[m] \in BOOLEAN /\ count[m] \in Nat

LEMMA AreCounted ==
  ASSUME TypeOK, NEW m \in Markets
  PROVE  Counted(m)
BY ConstantsAssumption DEF TypeOK, Counted, Rpcs

\* A job that stays where it is, or whose count moves on, has no more steps left.
LEMMA StaysDown ==
  ASSUME NEW m \in Markets, Counted(m), Counted(m)',
         job'[m] = job[m], rpc'[m] = rpc[m], revived'[m] = revived[m],
         submissions'[m] = submissions[m], count[m] <= count'[m]
  PROVE  RunsDown(m)
<1>1. StepsLeft(m)' <= StepsLeft(m)
  <2>1. CASE job[m] = "round"
    BY <2>1 DEF StepsLeft, Counted
  <2>2. CASE job[m] # "round"
    BY <2>2 DEF StepsLeft, Counted, JobStates
  <2> QED  BY <2>1, <2>2
<1> QED  BY <1>1 DEF RunsDown

\* The stages of a job before executeRound, each with more steps left than those
\* it leads to.
LEMMA StagesDown ==
  ASSUME NEW m \in Markets, Counted(m), Counted(m)',
         \/ (job[m] = "idle" /\ job'[m] = "block")
         \/ /\ job[m] = "block" /\ revived'[m] = revived[m]
            /\ \/ job'[m] = "timeframes"
               \/ job'[m] = "activity" /\ ~revived[m]
         \/ /\ job[m] = "timeframes" /\ revived'[m] = revived[m]
            /\ \/ job'[m] = "timeframes" /\ rpc'[m] = rpc[m] + 1
               \/ job'[m] = "activity" /\ ~revived[m]
               \/ job'[m] = "profit"
               \/ job'[m] = "round"
         \/ (job[m] = "activity" /\ job'[m] = "block" /\ revived'[m])
         \/ job[m] = "profit" /\ job'[m] = "round"
         \/ job[m] \notin Ended /\ job'[m] \in Ended
  PROVE  RunsDown(m)
<1> DEFINE R == RpcCount
           again == IF revived[m] THEN 0 ELSE 2 * R + 4
           again2 == IF revived'[m] THEN 0 ELSE 2 * R + 4
           left == IF count[m] < R THEN R - count[m] ELSE 0
           left2 == IF count'[m] < R THEN R - count'[m] ELSE 0
<1>1. /\ R \in Nat \ {0} /\ again \in {0, 2 * R + 4} /\ again2 \in {0, 2 * R + 4}
      /\ left \in 0..R /\ left2 \in 0..R /\ rpc[m] \in 0..(R - 1) /\ rpc'[m] \in 0..(R - 1)
      /\ (revived[m] => again = 0) /\ (~revived[m] => again = 2 * R + 4)
      /\ (revived'[m] => again2 = 0) /\ (revived'[m] = revived[m] => again2 = again)
  BY DEF Counted
<1>2. /\ job[m] = "idle" => StepsLeft(m) = 4 * R + 8
      /\ job[m] = "block" => StepsLeft(m) = again + 2 * R + 3
      /\ job[m] = "timeframes" => StepsLeft(m) = again + 2 * R + 2 - rpc[m]
      /\ job[m] = "activity" => StepsLeft(m) = 2 * R + 4
      /\ job[m] = "profit" => StepsLeft(m) = R + 2
      /\ job[m] = "round" => StepsLeft(m) = 1 + left
  BY DEF StepsLeft
<1>3. /\ job'[m] = "block" => StepsLeft(m)' = again2 + 2 * R + 3
      /\ job'[m] = "timeframes" => StepsLeft(m)' = again2 + 2 * R + 2 - rpc'[m]
      /\ job'[m] = "activity" => StepsLeft(m)' = 2 * R + 4
      /\ job'[m] = "profit" => StepsLeft(m)' = R + 2
      /\ job'[m] = "round" => StepsLeft(m)' = 1 + left2
      /\ job'[m] \in Ended => StepsLeft(m)' = 0
  BY DEF StepsLeft, Ended
<1> HIDE DEF again, again2, left, left2
<1>4. StepsLeft(m)' < StepsLeft(m)
  <2>1. CASE job[m] = "idle" /\ job'[m] = "block"
    BY <1>1, <1>2, <1>3, <2>1
  <2>2. CASE job[m] = "block" /\ revived'[m] = revived[m] /\ job'[m] = "timeframes"
    BY <1>1, <1>2, <1>3, <2>2
  <2>3. CASE job[m] = "block" /\ job'[m] = "activity" /\ ~revived[m]
    BY <1>1, <1>2, <1>3, <2>3
  <2>4. CASE /\ job[m] = "timeframes" /\ revived'[m] = revived[m]
             /\ job'[m] = "timeframes" /\ rpc'[m] = rpc[m] + 1
    BY <1>1, <1>2, <1>3, <2>4
  <2>5. CASE job[m] = "timeframes" /\ job'[m] = "activity" /\ ~revived[m]
    BY <1>1, <1>2, <1>3, <2>5
  <2>6. CASE job[m] = "timeframes" /\ job'[m] \in {"profit", "round"}
    BY <1>1, <1>2, <1>3, <2>6
  <2>7. CASE job[m] = "activity" /\ job'[m] = "block" /\ revived'[m]
    BY <1>1, <1>2, <1>3, <2>7
  <2>8. CASE job[m] = "profit" /\ job'[m] = "round"
    BY <1>1, <1>2, <1>3, <2>8
  <2>9. CASE job[m] \notin Ended /\ job'[m] \in Ended
    <3>1. job[m] \in {"idle", "block", "timeframes", "activity", "profit", "round"}
      BY <2>9 DEF Ended, Counted, JobStates
    <3>2. StepsLeft(m)' = 0
      BY <1>3, <2>9
    <3>3. StepsLeft(m) > 0
      BY <1>1, <1>2, <3>1
    <3> QED  BY <3>2, <3>3
  <2> QED  BY <2>1, <2>2, <2>3, <2>4, <2>5, <2>6, <2>7, <2>8, <2>9
<1>5. \/ job'[m] # job[m]
      \/ job'[m] = "timeframes" /\ rpc'[m] = rpc[m] + 1
  BY DEF Ended
<1>6. rpc[m] + 1 # rpc[m]
  BY <1>1
<1> QED  BY <1>4, <1>5, <1>6 DEF RunsDown

\* executeRound's loop goes on with a larger count, or ends.
LEMMA RoundsDown ==
  ASSUME NEW m \in Markets, Counted(m), Counted(m)', job[m] = "round",
         \/ job'[m] = "round" /\ count[m] < count'[m] /\ count'[m] < RpcCount
         \/ job'[m] \in Ended
  PROVE  RunsDown(m)
<1>1. CASE job'[m] = "round" /\ count[m] < count'[m] /\ count'[m] < RpcCount
  <2>1. StepsLeft(m) = 1 + (RpcCount - count[m]) /\ StepsLeft(m)' = 1 + (RpcCount - count'[m])
    BY <1>1 DEF StepsLeft, Counted
  <2>2. StepsLeft(m)' < StepsLeft(m) /\ StepsLeft(m)' <= StepsLeft(m)
    BY <1>1, <2>1 DEF Counted
  <2> QED  BY <2>2 DEF RunsDown
<1>2. CASE job'[m] \in Ended
  BY <1>2, StagesDown DEF Ended
<1> QED  BY <1>1, <1>2

LEMMA RunDownStep ==
  ASSUME IInv, [Next]_vars, NEW m \in Markets
  PROVE  RunsDown(m)
<1> USE DEF clockVars, taskVars, statusVars, queryVars, roundVars
<1>1. TypeOK /\ TypeOK' /\ RoundInv(m)
  BY TypeStep DEF IInv, Safe
<1>2. Counted(m) /\ Counted(m)'
  <2>1. Counted(m)
    BY <1>1, AreCounted
  <2>2. Counted(m)'
    BY <1>1, ConstantsAssumption DEF TypeOK, Counted, Rpcs
  <2> QED  BY <2>1, <2>2
<1>3. /\ job \in [Markets -> JobStates] /\ rpc \in [Markets -> Rpcs]
      /\ revived \in [Markets -> BOOLEAN] /\ count \in [Markets -> Nat]
      /\ submissions \in [Markets -> [Rpcs -> Nat]]
  BY <1>1 DEF TypeOK
<1> DEFINE Apart == /\ job'[m] = job[m] /\ rpc'[m] = rpc[m] /\ revived'[m] = revived[m]
                    /\ submissions'[m] = submissions[m] /\ count'[m] = count[m]
<1>4. ASSUME Apart PROVE RunsDown(m)
  <2>1. count[m] <= count'[m]
    BY <1>2, <1>4 DEF Counted
  <2> QED  BY <1>2, <1>4, <2>1, StaysDown
<1>5. CASE Tick \/ UNCHANGED vars \/ \E p \in DataProviders : MissingFetchFails(p)
  BY <1>4, <1>5 DEF Tick, MissingFetchFails, vars
<1>6. ASSUME NEW s \in Symbols, TaskStep(s) PROVE RunsDown(m)
  <2>1. CASE UNCHANGED <<job, queryVars, roundVars>>
    BY <1>4, <2>1
  <2>2. CASE StartWrite(s)
    <3>1. /\ task[s] = "pricing" /\ job'[m] = IF m \in MarketsOf(s) THEN "block" ELSE job[m]
          /\ UNCHANGED <<rpc, revived, roundVars>>
      BY <2>2 DEF StartWrite
    <3>2. m \in MarketsOf(s) => job[m] = "idle"
      BY <3>1 DEF IInv, Safe, TaskInv
    <3>3. CASE m \in MarketsOf(s)
      BY <1>2, <3>1, <3>2, <3>3, StagesDown
    <3>4. CASE m \notin MarketsOf(s)
      BY <1>4, <3>1, <3>4
    <3> QED  BY <3>3, <3>4
  <2> QED  BY <1>6, <2>1, <2>2 DEF TaskStep, SaveDefault, SkipWrite, JoinMarkets
<1>7. ASSUME NEW n \in Markets, n # m, NEW c, NEW tried, NextEndpoint(n, c, tried)
      PROVE  job'[m] = job[m] /\ count'[m] = count[m] /\ submissions'[m] = submissions[m]
  BY <1>3, <1>7 DEF NextEndpoint, FinishRound
<1>8. ASSUME NEW n \in Markets, n # m,
             \/ PollBlock(n) \/ QueryStep(n) \/ MakeActivity(n) \/ ProfitStep(n)
             \/ RoundFails(n) \/ RoundTimeout(n)
             \/ \E r \in Rpcs : SubmissionStep(n, r)
      PROVE  RunsDown(m)
  <2>1. CASE PollBlock(n) \/ QueryFails(n) \/ QueryNothingDue(n)
    <3>1. Apart
      BY <1>3, <1>8, <2>1 DEF PollBlock, PollEnds, PollAgain, QueryFails, QueryNothingDue,
                              QueryEndpoint, NoTimeframes
    <3> QED  BY <1>4, <3>1
  <2>2. CASE MakeActivity(n) \/ ProfitUnknown(n)
    <3>1. Apart
      BY <1>3, <1>8, <2>2 DEF MakeActivity, ProfitUnknown
    <3> QED  BY <1>4, <3>1
  <2>3. CASE QueryDue(n)
    <3>1. rpc'[m] = rpc[m] /\ revived'[m] = revived[m]
      BY <1>3, <1>8, <2>3 DEF QueryDue
    <3>2. \/ NextEndpoint(n, 0, attempt[n])
          \/ /\ UNCHANGED roundVars
             /\ \E v \in {"untrusted", "profit"} : job' = [job EXCEPT ![n] = v]
      BY <2>3 DEF QueryDue
    <3>3. job'[m] = job[m] /\ count'[m] = count[m] /\ submissions'[m] = submissions[m]
      BY <1>3, <1>7, <1>8, <3>2
    <3> QED  BY <1>4, <3>1, <3>3
  <2>4. CASE ProfitKnown(n) \/ RoundFails(n) \/ RoundTimeout(n)
    <3>1. rpc'[m] = rpc[m] /\ revived'[m] = revived[m]
      BY <2>4 DEF ProfitKnown, RoundFails, RoundTimeout
    <3>2. job'[m] = job[m] /\ count'[m] = count[m] /\ submissions'[m] = submissions[m]
      BY <1>7, <1>8, <2>4 DEF ProfitKnown, RoundFails, RoundTimeout
    <3> QED  BY <1>4, <3>1, <3>2
  <2>5. ASSUME NEW r \in Rpcs, SubmissionStep(n, r) PROVE Apart
    BY <1>3, <1>8, <2>5 DEF SubmissionStep, Mine, LateFailure, FinishRound
  <2> QED  BY <1>4, <1>8, <2>1, <2>2, <2>3, <2>4, <2>5 DEF QueryStep, ProfitStep
<1>9. CASE PollBlock(m)
  <2>1. CASE PollAgain(m)
    BY <1>4, <2>1 DEF PollAgain
  <2>2. CASE PollEnds(m)
    <3>1. job[m] = "block" /\ UNCHANGED <<revived, roundVars>>
      BY <2>2 DEF PollEnds
    <3>2. \/ job'[m] = "timeframes" \/ (job'[m] = "activity" /\ ~revived[m])
          \/ job'[m] = "settled"
      BY <1>3, <2>2 DEF PollEnds, QueryEndpoint, NoTimeframes
    <3> QED  BY <1>2, <3>1, <3>2, StagesDown DEF Ended
  <2> QED  BY <1>9, <2>1, <2>2 DEF PollBlock
<1>10. CASE QueryFails(m) \/ QueryNothingDue(m)
  <2>1. job[m] = "timeframes" /\ UNCHANGED <<revived, roundVars>>
    BY <1>10 DEF QueryFails, QueryNothingDue
  <2>2. \/ job'[m] = "timeframes" /\ rpc'[m] = rpc[m] + 1
        \/ job'[m] = "activity" /\ ~revived[m]
        \/ job'[m] = "settled"
    BY <1>3, <1>10 DEF QueryFails, QueryNothingDue, QueryEndpoint, NoTimeframes
  <2> QED  BY <1>2, <2>1, <2>2, StagesDown DEF Ended
<1>11. ASSUME NextEndpoint(m, 0, attempt[m]), job[m] \in {"timeframes", "profit"},
              revived'[m] = revived[m]
       PROVE  RunsDown(m)
  <2>1. job'[m] \in {"round", "true", "threw"}
    BY <1>3, <1>11 DEF NextEndpoint, FinishRound
  <2> QED  BY <1>2, <1>11, <2>1, StagesDown DEF Ended
<1>12. CASE QueryDue(m)
  <2>1. job[m] = "timeframes" /\ revived'[m] = revived[m]
    BY <1>12 DEF QueryDue
  <2>2. CASE NextEndpoint(m, 0, attempt[m])
    BY <1>11, <2>1, <2>2
  <2>3. CASE job' = [job EXCEPT ![m] = "untrusted"] \/ job' = [job EXCEPT ![m] = "profit"]
    <3>1. job'[m] \in {"untrusted", "profit"}
      BY <1>3, <2>3
    <3> QED  BY <1>2, <2>1, <3>1, StagesDown DEF Ended
  <2> QED  BY <1>12, <2>2, <2>3 DEF QueryDue
<1>13. CASE MakeActivity(m)
  <2>1. job[m] = "activity"
    BY <1>13 DEF MakeActivity
  <2>2. (job'[m] = "block" /\ revived'[m]) \/ job'[m] = "settled"
    BY <1>3, <1>13 DEF MakeActivity
  <2> QED  BY <1>2, <2>1, <2>2, StagesDown DEF Ended
<1>14. CASE ProfitStep(m)
  <2>1. CASE ProfitKnown(m)
    BY <1>11, <2>1 DEF ProfitKnown
  <2>2. CASE ProfitUnknown(m)
    <3>1. job[m] = "profit" /\ job'[m] = "unprofitable"
      BY <1>3, <2>2 DEF ProfitUnknown
    <3> QED  BY <1>2, <3>1, StagesDown DEF Ended
  <2> QED  BY <1>14, <2>1, <2>2 DEF ProfitStep
<1>15. CASE RoundFails(m) \/ RoundTimeout(m)
  <2>1. PICK c \in {count[m] + 1, count[m] + 2} : \E tried : NextEndpoint(m, c, tried)
    BY <1>15 DEF RoundFails, RoundTimeout
  <2>2. job[m] = "round"
    BY <1>15 DEF RoundFails, RoundTimeout
  <2>3. \/ job'[m] = "round" /\ count'[m] = c /\ c < RpcCount
        \/ job'[m] \in {"true", "threw"}
    BY <1>3, <2>1 DEF NextEndpoint, FinishRound
  <2>4. count[m] < c
    BY <1>2, <2>1 DEF Counted
  <2> QED  BY <1>2, <2>2, <2>3, <2>4, RoundsDown DEF Ended
<1>16. ASSUME NEW r \in Rpcs, SubmissionStep(m, r) PROVE RunsDown(m)
  <2>1. UNCHANGED <<queryVars, submissions>>
    BY <1>16 DEF SubmissionStep, Mine, LateFailure
  <2>2. CASE current[m] = r
    <3>1. Mine(m, r)
      BY <1>16, <2>2 DEF SubmissionStep, LateFailure
    <3>2. job[m] = "round"
      BY <1>1, <2>2, RpcsType DEF RoundInv
    <3>3. job'[m] \in {"true", "threw"}
      BY <1>3, <2>2, <3>1 DEF Mine, FinishRound
    <3> QED  BY <1>2, <3>2, <3>3, RoundsDown DEF Ended
  <2>3. CASE current[m] # r
    <3>1. job' = job /\ count'[m] \in {count[m], count[m] + 1}
      BY <1>3, <1>16, <2>3 DEF SubmissionStep, Mine, LateFailure
    <3>2. count[m] <= count'[m]
      BY <1>2, <3>1 DEF Counted
    <3> QED  BY <1>2, <2>1, <3>1, <3>2, StaysDown
  <2> QED  BY <2>2, <2>3
<1>17. ASSUME NEW n \in Markets,
              \/ PollBlock(n) \/ QueryStep(n) \/ MakeActivity(n) \/ ProfitStep(n)
              \/ RoundFails(n) \/ RoundTimeout(n)
              \/ \E r \in Rpcs : SubmissionStep(n, r)
       PROVE  RunsDown(m)
  <2>1. CASE n # m
    BY <1>8, <1>17, <2>1
  <2>2. CASE n = m
    BY <1>9, <1>10, <1>12, <1>13, <1>14, <1>15, <1>16, <1>17, <2>2 DEF QueryStep
  <2> QED  BY <2>1, <2>2
<1> QED  BY <1>5, <1>6, <1>17 DEF Next

\* The loops of a job end by themselves, for any number of endpoints and
\* markets, except the poll for a block.
THEOREM AllJobsRunDown == Spec => JobsRunDown
<1> DEFINE AllDown == \A m \in Markets : RunsDown(m)
<1>1. IInv /\ [Next]_vars => [AllDown]_vars
  BY RunDownStep
<1>2. JobsRunDown <=> [][AllDown]_vars
  BY DEF JobsRunDown, RunsDown
<1> HIDE DEF AllDown
<1> QED  BY <1>1, <1>2, Invariance, PTL DEF Spec
=============================================================================

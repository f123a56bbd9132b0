----------------------- MODULE ExchangeBindingProofs -----------------------
(***************************************************************************)
(* Proofs about ExchangeBinding, for any exchanges, symbols, listing and   *)
(* number of tries.  AbsentListed speaks of the end of a pass; Awaited     *)
(* below is what holds of an exchange without candles while one runs.      *)
(***************************************************************************)
EXTENDS ExchangeBinding, TLAPS

\* An exchange without any candle is listed or still being asked.
Awaited ==
    \A p \in Providers : ohlcResult[p] = {} =>
        \/ p \in dataProviderStatuses
        \/ \E s \in Symbols : <<p, s>> \in Listed /\ fetch[<<p, s>>] = "polling"

PassOver == at # "binding" => Bound

IInv == TypeOK /\ Awaited /\ PassOver

LEMMA InitInv == Init => IInv
<1> SUFFICES ASSUME Init PROVE IInv
  OBVIOUS
<1>1. TypeOK
  <2>1. 1 \in 1..MaxTry
    BY BindingAssumption
  <2>2. tries \in [Listed -> 1..MaxTry] /\ fetch \in [Listed -> {"polling", "settled"}]
    BY <2>1 DEF Init
  <2> QED  BY <2>2 DEF Init, TypeOK
<1>2. Awaited
  <2> SUFFICES ASSUME NEW p \in Providers
               PROVE  \E s \in Symbols : <<p, s>> \in Listed /\ fetch[<<p, s>>] = "polling"
    BY DEF Awaited
  <2>1. PICK s \in Symbols : <<p, s>> \in Listed
    BY BindingAssumption
  <2> QED  BY <2>1 DEF Init
<1> QED  BY <1>1, <1>2 DEF IInv, PassOver, Init

\* A pass begins: every exchange lists a symbol, so every one is asked.
LEMMA FetchAgainInv ==
  ASSUME IInv, FetchAgain,
         afterThirty' \in BOOLEAN, minuteChanged' \in BOOLEAN,
         dataProviderStatuses' \in SUBSET Providers,
         ohlcResult' \in [Providers -> SUBSET Symbols]
  PROVE  IInv'
<1>1. TypeOK'
  BY BindingAssumption DEF TypeOK, FetchAgain
<1>2. Awaited'
  BY BindingAssumption DEF Awaited, FetchAgain
<1> QED  BY <1>1, <1>2 DEF IInv, PassOver, FetchAgain

LEMMA CandleInv ==
  ASSUME IInv, NEW p \in Providers, NEW s \in Symbols, <<p, s>> \in Listed,
         CandleArrives(p, s)
  PROVE  IInv'
<1> USE DEF CandleArrives, clockVars
<1>t. TypeOK
  BY DEF IInv
<1>1. TypeOK'
  <2>1. /\ fetch' \in [Listed -> {"polling", "settled"}]
        /\ ohlcResult' \in [Providers -> SUBSET Symbols]
    BY <1>t DEF TypeOK
  <2>2. dataProviderStatuses' \in SUBSET Providers
    BY <1>t DEF TypeOK, StatusesAfterCandle
  <2> QED  BY <1>t, <2>1, <2>2 DEF TypeOK
<1>2. Awaited'
  <2> SUFFICES ASSUME NEW q \in Providers, ohlcResult'[q] = {}
               PROVE  \/ q \in dataProviderStatuses'
                      \/ \E x \in Symbols : <<q, x>> \in Listed /\ fetch'[<<q, x>>] = "polling"
    BY DEF Awaited
  <2>1. q # p /\ ohlcResult[q] = {}
    BY <1>t DEF TypeOK
  <2>2. CASE q \in dataProviderStatuses
    BY <2>1, <2>2 DEF StatusesAfterCandle
  <2>3. CASE \E x \in Symbols : <<q, x>> \in Listed /\ fetch[<<q, x>>] = "polling"
    <3>1. PICK x \in Symbols : <<q, x>> \in Listed /\ fetch[<<q, x>>] = "polling"
      BY <2>3
    <3>2. fetch'[<<q, x>>] = "polling"
      BY <1>t, <2>1, <3>1 DEF TypeOK
    <3> QED  BY <3>1, <3>2
  <2> QED  BY <2>1, <2>2, <2>3 DEF IInv, Awaited
<1>3. PassOver'
  <2>1. at = "binding"
    BY DEF IInv, PassOver, Bound
  <2> QED  BY <2>1 DEF PassOver
<1> QED  BY <1>1, <1>2, <1>3 DEF IInv

LEMMA AttemptInv ==
  ASSUME IInv, NEW p \in Providers, NEW s \in Symbols, <<p, s>> \in Listed,
         AttemptFails(p, s)
  PROVE  IInv'
<1> USE DEF AttemptFails, clockVars
<1>t. TypeOK
  BY DEF IInv
<1>1. TypeOK'
  <2>1. CASE tries[<<p, s>>] < MaxTry
    <3>1. tries' \in [Listed -> 1..MaxTry]
      BY <1>t, <2>1, BindingAssumption DEF TypeOK
    <3> QED  BY <1>t, <2>1, <3>1 DEF TypeOK
  <2>2. CASE ~(tries[<<p, s>>] < MaxTry)
    BY <1>t, <2>2 DEF TypeOK
  <2> QED  BY <2>1, <2>2
<1>2. Awaited'
  <2> SUFFICES ASSUME NEW q \in Providers, ohlcResult'[q] = {}
               PROVE  \/ q \in dataProviderStatuses'
                      \/ \E x \in Symbols : <<q, x>> \in Listed /\ fetch'[<<q, x>>] = "polling"
    BY DEF Awaited
  <2>1. \/ q \in dataProviderStatuses
        \/ \E x \in Symbols : <<q, x>> \in Listed /\ fetch[<<q, x>>] = "polling"
    BY DEF IInv, Awaited
  <2>2. CASE tries[<<p, s>>] < MaxTry
    BY <2>1, <2>2
  <2>3. CASE ~(tries[<<p, s>>] < MaxTry) /\ q = p
    BY <2>3
  <2>4. CASE ~(tries[<<p, s>>] < MaxTry) /\ q # p
    <3>1. \A x \in Symbols : <<q, x>> \in Listed => fetch'[<<q, x>>] = fetch[<<q, x>>]
      BY <1>t, <2>4 DEF TypeOK
    <3> QED  BY <2>1, <2>4, <3>1
  <2> QED  BY <2>2, <2>3, <2>4
<1>3. PassOver'
  <2>1. at = "binding"
    BY DEF IInv, PassOver, Bound
  <2> QED  BY <2>1 DEF PassOver
<1> QED  BY <1>1, <1>2, <1>3 DEF IInv

LEMMA NextInv == IInv /\ [Next]_vars => IInv'
<1> SUFFICES ASSUME IInv, [Next]_vars PROVE IInv'
  OBVIOUS
<1>1. CASE Tick
  BY <1>1 DEF Tick, IInv, TypeOK, Awaited, PassOver, Bound
<1>2. CASE EndPass
  BY <1>2 DEF EndPass, clockVars, IInv, TypeOK, Awaited, PassOver, Bound
<1>3. CASE NextPass
  BY <1>3, FetchAgainInv DEF NextPass, clockVars, IInv, TypeOK
<1>4. CASE NextMinute
  BY <1>4, FetchAgainInv DEF NextMinute, IInv, TypeOK
<1>5. ASSUME NEW f \in Listed, FetchStep(f[1], f[2]) PROVE IInv'
  <2>1. PICK p \in Providers, s \in Symbols : f = <<p, s>>
    BY BindingAssumption
  <2>2. f[1] = p /\ f[2] = s /\ <<p, s>> \in Listed
    BY <2>1
  <2>3. CandleArrives(p, s) \/ AttemptFails(p, s)
    BY <1>5, <2>2 DEF FetchStep, AnswersTooLate, AnswersShort, RequestThrows
  <2> QED  BY <2>2, <2>3, CandleInv, AttemptInv
<1>6. CASE UNCHANGED vars
  BY <1>6 DEF vars, clockVars, IInv, TypeOK, Awaited, PassOver, Bound
<1> QED  BY <1>1, <1>2, <1>3, <1>4, <1>5, <1>6 DEF Next

\* The inductive invariant of the binding holds throughout.
THEOREM BindingInvariance == Spec => []IInv
  BY InitInv, NextInv, PTL DEF Spec

\* All variables keep their types.
THEOREM BindingTypes == Spec => []TypeOK
<1>1. IInv => TypeOK
  BY DEF IInv
<1> QED  BY <1>1, BindingInvariance, PTL

\* When candles are stored, an exchange that gave none is in the list.
THEOREM AbsentAreListed == Spec => []AbsentListed
<1>1. IInv => AbsentListed
  BY DEF IInv, AbsentListed, Awaited, PassOver, Bound
<1> QED  BY <1>1, BindingInvariance, PTL
=============================================================================

------------------------- MODULE MCProgressProofs -------------------------
(***************************************************************************)
(* The theorems about EmbedderHealth: an alert is earned, for any number   *)
(* of questions, probes, slots, retries and faults.  Then those of         *)
(* MCProgress: the instance for TLC runs each of its parts as it is on its *)
(* own, so that what is proved of the parts holds of all of them.          *)
(***************************************************************************)
EXTENDS MCProgress, BillingProofs, GroundedAnswersProofs

----------------------------------------------------------------------------
(* EmbedderHealth.                                                         *)

CallerType ==
  [step : {"idle", "posting", "answered", "reading"}, attempt : 0..Retries,
   result : {"none", "vector", "refused", "failed"}]

\* A caller at rest.
LEMMA RestType == Retries \in Nat => /\ AtRest \in CallerType
                                     /\ [AtRest EXCEPT !.step = "reading"] \in CallerType
                                     /\ AtRest.result = "none"
                                     /\ [AtRest EXCEPT !.step = "reading"].result = "none"
BY DEF AtRest, CallerType

\* What the provider and the key have said is on record: a refused account, a
\* caller that holds a refusal and the alert all have a refusal behind them.
EarnedInv ==
  /\ account = "refused" => wasRefused
  /\ \A c \in Callers : caller[c].result = "refused" => wasRefused
  /\ alert => wasRefused

\* A single request that is refused does not speak of the account, with either
\* client (_is_account_refusal, account_refused).
LEMMA OneRequestOnly ==
  ASSUME NEW p \in {"gemini", "openrouter"}, NEW status \in BadRequests(p) \cup {"429"}
  PROVE  AccountRefused(p, status) = FALSE
BY DEF BadRequests, AccountRefused

\* The callers' part of a step, with what it leaves of their results.
Moves(c, r) ==
  /\ caller' = [caller EXCEPT ![c] = r]
  /\ r \in CallerType

LEMMA MovedType ==
  ASSUME caller \in [Callers -> CallerType], NEW c \in Callers, NEW r, Moves(c, r)
  PROVE  /\ caller' \in [Callers -> CallerType]
         /\ caller'[c] = r
         /\ \A d \in Callers : d # c => caller'[d] = caller[d]
BY DEF Moves

\* The invariant of the types and of the alert.
HealthInv == HealthTypeOK /\ EarnedInv

\* What a step of one caller needs to show: its new record, and where a refusal
\* in it comes from.
LEMMA OneCallerMoves ==
  ASSUME HealthInv, NEW c \in Callers, NEW r, Moves(c, r),
         r.result = "refused" => wasRefused,
         UNCHANGED <<provider, account, wasRefused, alert, lock, selfCheck, report, turns>>,
         asked' \in 0..MaxAsked, faults' \in 0..MaxFaults
  PROVE  HealthInv'
<1>1. caller \in [Callers -> CallerType]
  BY DEF HealthInv, HealthTypeOK, CallerType
<1>2. /\ caller' \in [Callers -> CallerType]
      /\ caller'[c] = r
      /\ \A d \in Callers : d # c => caller'[d] = caller[d]
  BY <1>1, MovedType
<1>3. HealthTypeOK'
  BY <1>2 DEF HealthInv, HealthTypeOK, CallerType
<1>4. \A d \in Callers : caller'[d].result = "refused" => wasRefused
  BY <1>2 DEF HealthInv, EarnedInv
<1>5. EarnedInv'
  BY <1>4 DEF HealthInv, EarnedInv
<1>. QED BY <1>3, <1>5 DEF HealthInv

\* A fault is counted within its bound.
LEMMA FaultCounts ==
  ASSUME HealthAssumption!1, faults \in 0..MaxFaults, Fault
  PROVE  faults' \in 0..MaxFaults
BY DEF Fault

LEMMA HealthInit_Inv == ASSUME HealthAssumption!1, HealthInit PROVE HealthInv
<1>1. \A c \in Callers : caller[c] = AtRest /\ caller[c].result = "none"
  BY RestType DEF HealthInit, AtRest
<1>2. caller \in [Callers -> CallerType]
  BY RestType DEF HealthInit
<1>3. 0 \in 0..MaxAsked /\ 0 \in 0..MaxTurns /\ 0 \in 0..MaxFaults
  OBVIOUS
<1>4. HealthTypeOK
  BY <1>2, <1>3 DEF HealthInit, HealthTypeOK, CallerType
<1>5. EarnedInv
  BY <1>1 DEF HealthInit, EarnedInv
<1>. QED BY <1>4, <1>5 DEF HealthInv

\* Every step keeps it: the results come from the account as it is, the alert
\* from the results.
LEMMA HealthStep_Inv ==
  ASSUME HealthAssumption!1, HealthInv, [HealthNext]_healthVars
  PROVE  HealthInv'
<1>0. /\ Retries \in Nat /\ MaxAsked \in Nat /\ MaxFaults \in Nat /\ MaxTurns \in Nat
      /\ caller \in [Callers -> CallerType]
      /\ asked \in 0..MaxAsked /\ faults \in 0..MaxFaults
      /\ \A c \in Callers : caller[c].result = "refused" => wasRefused
  BY DEF HealthInv, HealthTypeOK, CallerType, EarnedInv
<1>1. CASE AccountTurns
  <2>1. HealthTypeOK'
    BY <1>1, <1>0 DEF AccountTurns, HealthInv, HealthTypeOK
  <2>2. EarnedInv'
    BY <1>1 DEF AccountTurns, EarnedInv
  <2>. QED BY <2>1, <2>2 DEF HealthInv
<1>2. CASE LockExpires
  BY <1>2 DEF LockExpires, HealthInv, HealthTypeOK, EarnedInv
<1>3. ASSUME NEW c \in Callers, Vector(c) PROVE HealthInv'
  <2>. DEFINE r == [caller[c] EXCEPT !.step = "answered", !.result = "vector"]
  <2>1. r \in CallerType /\ r.result = "vector"
    BY <1>0 DEF CallerType
  <2>2. Moves(c, r)
    BY <1>3, <2>1 DEF Vector, Settle, Moves
  <2>. HIDE DEF r
  <2>. QED BY <1>0, <1>3, <2>1, <2>2, OneCallerMoves DEF Vector
<1>4. ASSUME NEW c \in Callers, Refused(c) PROVE HealthInv'
  <2>1. PICK v \in {"refused", "failed"} : Settle(c, v)
    BY <1>4 DEF Refused
  <2>. DEFINE r == [caller[c] EXCEPT !.step = "answered", !.result = v]
  <2>2. r \in CallerType /\ r.result = v
    BY <1>0 DEF CallerType
  <2>3. Moves(c, r)
    BY <2>1, <2>2 DEF Settle, Moves
  <2>4. wasRefused
    BY <1>4 DEF Refused, HealthInv, EarnedInv
  <2>. HIDE DEF r
  <2>. QED BY <1>0, <1>4, <2>2, <2>3, <2>4, OneCallerMoves DEF Refused
<1>5. ASSUME NEW c \in Callers, Transient(c) PROVE HealthInv'
  <2>0. faults' \in 0..MaxFaults /\ asked' \in 0..MaxAsked
    BY <1>5, <1>0, FaultCounts DEF Transient
  <2>1. CASE c \in Questions /\ caller[c].attempt < Retries
    <3>. DEFINE r == [caller[c] EXCEPT !.attempt = caller[c].attempt + 1]
    <3>1. r \in CallerType /\ r.result = caller[c].result
      <4>1. caller[c] \in CallerType
        BY <1>0
      <4>2. caller[c].attempt + 1 \in 0..Retries
        BY <4>1, <2>1, <1>0 DEF CallerType
      <4>. QED BY <4>1, <4>2 DEF CallerType
    <3>2. Moves(c, r)
      BY <1>5, <2>1, <3>1 DEF Transient, Moves
    <3>. HIDE DEF r
    <3>. QED BY <1>0, <1>5, <2>0, <3>1, <3>2, OneCallerMoves DEF Transient
  <2>2. CASE ~ (c \in Questions /\ caller[c].attempt < Retries)
    <3>. DEFINE r == [caller[c] EXCEPT !.step = "answered", !.result = "failed"]
    <3>1. r \in CallerType /\ r.result = "failed"
      BY <1>0 DEF CallerType
    <3>2. Moves(c, r)
      BY <1>5, <2>2, <3>1 DEF Transient, Settle, Moves
    <3>. HIDE DEF r
    <3>. QED BY <1>0, <1>5, <2>0, <3>1, <3>2, OneCallerMoves DEF Transient
  <2>. QED BY <2>1, <2>2
<1>6. ASSUME NEW c \in Callers, Failed(c) PROVE HealthInv'
  <2>0. faults' \in 0..MaxFaults /\ asked' \in 0..MaxAsked
    BY <1>6, <1>0, FaultCounts DEF Failed
  <2>1. Settle(c, "failed")
    <3>1. provider \in {"gemini", "openrouter"}
      BY DEF HealthInv, HealthTypeOK
    <3>2. PICK status \in BadRequests(provider) \cup {"429"} :
            Settle(c, IF AccountRefused(provider, status) THEN "refused" ELSE "failed")
      BY <1>6 DEF Failed
    <3>. QED BY <3>1, <3>2, OneRequestOnly
  <2>. DEFINE r == [caller[c] EXCEPT !.step = "answered", !.result = "failed"]
  <2>2. r \in CallerType /\ r.result = "failed"
    BY <1>0 DEF CallerType
  <2>3. Moves(c, r)
    BY <2>1, <2>2 DEF Settle, Moves
  <2>. HIDE DEF r
  <2>. QED BY <1>0, <1>6, <2>0, <2>2, <2>3, OneCallerMoves DEF Failed
<1>7. ASSUME NEW c \in Callers, RecordResult(c) PROVE HealthInv'
  <2>. DEFINE r == IF c \in Probes THEN [AtRest EXCEPT !.step = "reading"] ELSE AtRest
  <2>1. r \in CallerType /\ r.result = "none"
    BY <1>0, RestType
  <2>2. Moves(c, r)
    BY <1>7, <2>1 DEF RecordResult, Moves
  <2>. HIDE DEF r
  <2>3. /\ caller' \in [Callers -> CallerType]
        /\ caller'[c] = r
        /\ \A d \in Callers : d # c => caller'[d] = caller[d]
    BY <1>0, <2>2, MovedType
  <2>4. alert' \in BOOLEAN /\ (alert' => alert \/ caller[c].result = "refused")
    <3>0. alert \in BOOLEAN
      BY DEF HealthInv, HealthTypeOK
    <3>1. CASE alert' = KeyAfter(caller[c].result, alert)
      <4>1. CASE caller[c].result = "refused"
        BY <3>1, <4>1 DEF KeyAfter
      <4>2. CASE caller[c].result # "refused" /\ caller[c].result = "vector"
        BY <3>1, <4>2 DEF KeyAfter
      <4>3. CASE caller[c].result # "refused" /\ caller[c].result # "vector"
        BY <3>0, <3>1, <4>3, Zenon DEF KeyAfter
      <4>. QED BY <4>1, <4>2, <4>3
    <3>2. CASE UNCHANGED alert
      BY <3>0, <3>2
    <3>. QED BY <1>7, <3>1, <3>2 DEF RecordResult
  <2>5. faults' \in 0..MaxFaults
    BY <1>7, <1>0, FaultCounts DEF RecordResult
  <2>6. HealthTypeOK'
    BY <1>7, <2>3, <2>4, <2>5 DEF RecordResult, HealthInv, HealthTypeOK, CallerType
  <2>7. \A d \in Callers : caller'[d].result = "refused" => wasRefused
    BY <1>0, <2>1, <2>3
  <2>8. alert' => wasRefused
    BY <1>0, <2>4 DEF HealthInv, EarnedInv
  <2>9. EarnedInv'
    BY <1>7, <2>7, <2>8 DEF RecordResult, HealthInv, EarnedInv
  <2>. QED BY <2>6, <2>9 DEF HealthInv
<1>8. ASSUME NEW c \in Callers, Lost(c) PROVE HealthInv'
  <2>0. faults' \in 0..MaxFaults /\ asked' \in 0..MaxAsked
    BY <1>8, <1>0, FaultCounts DEF Lost
  <2>1. Moves(c, AtRest) /\ AtRest.result = "none"
    BY <1>8, <1>0, RestType DEF Lost, Moves
  <2>. QED BY <1>8, <2>0, <2>1, OneCallerMoves DEF Lost
<1>9. ASSUME NEW q \in Questions, AskQuestion(q) PROVE HealthInv'
  <2>. DEFINE r == [caller[q] EXCEPT !.step = "posting"]
  <2>0. q \in Callers /\ asked' \in 0..MaxAsked /\ faults' \in 0..MaxFaults
    BY <1>9, <1>0 DEF AskQuestion, Callers
  <2>1. r \in CallerType /\ r.result = caller[q].result
    BY <1>0, <2>0 DEF CallerType
  <2>2. Moves(q, r)
    BY <1>9, <2>1 DEF AskQuestion, Becomes, Moves
  <2>. HIDE DEF r
  <2>. QED BY <1>0, <1>9, <2>0, <2>1, <2>2, OneCallerMoves DEF AskQuestion
<1>10. ASSUME NEW h \in Probes, SkipCheck(h) PROVE HealthInv'
  <2>. DEFINE r == [caller[h] EXCEPT !.step = "reading"]
  <2>0. h \in Callers /\ asked' \in 0..MaxAsked /\ faults' \in 0..MaxFaults
    BY <1>10, <1>0, FaultCounts DEF SkipCheck, Callers
  <2>1. r \in CallerType /\ r.result = caller[h].result
    BY <1>0, <2>0 DEF CallerType
  <2>2. Moves(h, r)
    BY <1>10, <2>1 DEF SkipCheck, Becomes, Moves
  <2>. HIDE DEF r
  <2>. QED BY <1>0, <1>10, <2>0, <2>1, <2>2, OneCallerMoves DEF SkipCheck
<1>11. ASSUME NEW h \in Probes, Ping(h) PROVE HealthInv'
  <2>. DEFINE r == [caller[h] EXCEPT !.step = "posting"]
  <2>0. h \in Callers
    BY DEF Callers
  <2>1. r \in CallerType /\ r.result = caller[h].result
    BY <1>0, <2>0 DEF CallerType
  <2>2. Moves(h, r)
    BY <1>11, <2>1 DEF Ping, Becomes, Moves
  <2>. HIDE DEF r
  <2>3. /\ caller' \in [Callers -> CallerType]
        /\ caller'[h] = r
        /\ \A d \in Callers : d # h => caller'[d] = caller[d]
    BY <1>0, <2>0, <2>2, MovedType
  <2>4. HealthTypeOK'
    BY <1>11, <2>3 DEF Ping, HealthInv, HealthTypeOK, CallerType
  <2>5. \A d \in Callers : caller'[d].result = "refused" => wasRefused
    BY <1>0, <2>0, <2>1, <2>3
  <2>6. EarnedInv'
    BY <1>11, <2>5 DEF Ping, HealthInv, EarnedInv
  <2>. QED BY <2>4, <2>6 DEF HealthInv
<1>12. ASSUME NEW h \in Probes, Report(h) PROVE HealthInv'
  <2>0. h \in Callers /\ faults' \in 0..MaxFaults
    BY <1>12, <1>0, FaultCounts DEF Report, Callers
  <2>1. Moves(h, AtRest) /\ AtRest.result = "none"
    BY <1>12, <1>0, RestType DEF Report, Moves
  <2>2. /\ caller' \in [Callers -> CallerType]
        /\ caller'[h] = AtRest
        /\ \A d \in Callers : d # h => caller'[d] = caller[d]
    BY <1>0, <2>0, <2>1, MovedType
  <2>3. report' \in {"none", "ok", "refused", "unavailable"}
    BY <1>12 DEF Report
  <2>4. HealthTypeOK'
    BY <1>12, <2>0, <2>2, <2>3 DEF Report, HealthInv, HealthTypeOK, CallerType
  <2>5. \A d \in Callers : caller'[d].result = "refused" => wasRefused
    BY <1>0, <2>1, <2>2
  <2>6. EarnedInv'
    BY <1>12, <2>5 DEF Report, HealthInv, EarnedInv
  <2>. QED BY <2>4, <2>6 DEF HealthInv
<1>13. CASE UNCHANGED healthVars
  BY <1>13 DEF healthVars, HealthInv, HealthTypeOK, EarnedInv
<1>. QED
  BY <1>1, <1>2, <1>3, <1>4, <1>5, <1>6, <1>7, <1>8, <1>9, <1>10, <1>11, <1>12, <1>13
  DEF HealthNext, Answers

\* The refusal behind a caller's result, and with the types all of it, is an
\* invariant of the specification.
THEOREM RefusalsAreOnRecord == HealthSpec => []HealthInv
<1>1. HealthAssumption!1
  BY HealthAssumption
<1>2. HealthInit => HealthInv
  BY <1>1, HealthInit_Inv
<1>3. HealthInv /\ [HealthNext]_healthVars => HealthInv'
  BY <1>1, HealthStep_Inv
<1>. QED BY <1>2, <1>3, PTL DEF HealthSpec

\* The key in Redis (query_health.record_failure) is never set although the
\* provider has not refused the account, for any number of questions, probes,
\* slots, retries and faults.
THEOREM AlertStaysEarned == HealthSpec => []AlertIsEarned
<1>1. HealthInv => AlertIsEarned
  BY DEF HealthInv, EarnedInv, AlertIsEarned
<1>. QED BY <1>1, RefusalsAreOnRecord, PTL

\* The types of the account, of the key in Redis and of its callers
\* (query_health).
THEOREM HealthTyped == HealthSpec => []HealthTypeOK
<1>1. HealthInv => HealthTypeOK
  BY DEF HealthInv
<1>. QED BY <1>1, RefusalsAreOnRecord, PTL
----------------------------------------------------------------------------
(* MCProgress.                                                             *)

\* A behaviour of all of them is one of each, fairness aside: a run of
\* MCProgress checks each part as its own module specifies it.
THEOREM ProgressPartsAreTheirOwn ==
  ProgressSpec => Spec /\ BillingSpec /\ AnswersSpec /\ HealthSpec
<1>1. ProgressInit => Init /\ BillingInit /\ AnswersInit /\ HealthInit
  BY DEF ProgressInit
<1>2. [ProgressNext]_<<part, vars, billingVars, answersVars, healthVars>>
      => [Next]_vars /\ [BillingNext]_billingVars /\ [AnswersNext]_answersVars
         /\ [HealthNext]_healthVars
  BY DEF ProgressNext
<1>. QED
  BY <1>1, <1>2, PTL DEF ProgressSpec, Spec, BillingSpec, AnswersSpec, HealthSpec

\* The types of paid calls, memberships, answers over a changing corpus and the
\* embedder's health, for any number of each (call_site.py, memberships.py,
\* retriever.py, query_health.py).
THEOREM ProgressTyped == ProgressSpec => []ProgressTypeOK
<1>1. TypeOK /\ BillingTypeOK /\ AnswersTypeOK /\ HealthTypeOK => ProgressTypeOK
  BY DEF ProgressTypeOK
<1>. QED
  BY <1>1, ProgressPartsAreTheirOwn, TypeCorrect, BillingTyped, AnswersTyped, HealthTyped, PTL
=============================================================================

--------------------------- MODULE EmbedderHealth ---------------------------
(* Whether the provider of the query embedder refuses the account.          *)
(*                                                                          *)
(* A question is embedded with a few retries; an answer that refuses the    *)
(* ACCOUNT sets one key in Redis, the next vector deletes it.  The uptime   *)
(* probe calls /health/index for ever: it may first embed one word, at most *)
(* once per interval for the whole app, feeds the result to the same key    *)
(* and reports what the key then says.  Redis calls are cut off and fail,   *)
(* the provider has bad moments, callers go away; account and key are read  *)
(* and written by all of them without a lock.                               *)
EXTENDS Naturals, FiniteSets

CONSTANTS
  Questions, Probes,
  Slots,        \* cost_max_concurrent_calls
  Retries,      \* embedding_max_retries
  MaxAsked,     \* bound: questions
  MaxTurns,     \* bound: the account is emptied, topped up, ...
  MaxFaults     \* bound: failing Redis calls, bad provider answers, lost callers

ASSUME HealthAssumption ==
  /\ {Slots, Retries, MaxAsked, MaxTurns, MaxFaults} \subseteq Nat
  /\ Slots > 0 /\ Questions \cap Probes = {}

VARIABLES
  provider,     \* "gemini" or "openrouter"
  account,      \* the provider's: "open" or "refused"
  wasRefused,   \* history: it has been "refused"
  alert,        \* Redis: query_embedder_refused_since is there
  lock,         \* Redis: the self-check's key is there
  selfCheck,    \* the interval is not 0
  caller,       \* what each question and probe is doing
  report,       \* what the last finished probe reported
  asked, turns, faults

healthVars == <<provider, account, wasRefused, alert, lock, selfCheck, caller,
                report, asked, turns, faults>>

Callers == Questions \cup Probes

AtRest == [step |-> "idle", attempt |-> 0, result |-> "none"]

HealthTypeOK ==
  /\ provider \in {"gemini", "openrouter"}
  /\ account \in {"open", "refused"} /\ wasRefused \in BOOLEAN
  /\ alert \in BOOLEAN /\ lock \in BOOLEAN /\ selfCheck \in BOOLEAN
  /\ caller \in [Callers ->
       [step : {"idle", "posting", "answered", "reading"}, attempt : 0..Retries,
        result : {"none", "vector", "refused", "failed"}]]
  /\ report \in {"none", "ok", "refused", "unavailable"}
  /\ asked \in 0..MaxAsked /\ turns \in 0..MaxTurns /\ faults \in 0..MaxFaults

HealthInit ==
  /\ provider \in {"gemini", "openrouter"}
  /\ account = "open" /\ wasRefused = FALSE
  /\ alert = FALSE /\ lock = FALSE /\ selfCheck \in BOOLEAN
  /\ caller = [c \in Callers |-> AtRest]
  /\ report = "none"
  /\ asked = 0 /\ turns = 0 /\ faults = 0

Fault == faults < MaxFaults /\ faults' = faults + 1

Becomes(c, step) == caller' = [caller EXCEPT ![c] = [@ EXCEPT !.step = step]]

----------------------------------------------------------------------------
(* The provider and its client.                                             *)

\* The balance runs out or is topped up, the key is revoked or replaced.
AccountTurns ==
  /\ turns < MaxTurns /\ turns' = turns + 1
  /\ account' = IF account = "open" THEN "refused" ELSE "open"
  /\ wasRefused' = TRUE
  /\ UNCHANGED <<provider, alert, lock, selfCheck, caller, report, asked, faults>>

\* How a provider refuses an account, and what else it refuses one request with.
Refusals(p) ==
  IF p = "gemini" THEN {"401", "402", "403", "400 names the key"} ELSE {"401", "402"}

BadRequests(p) == IF p = "gemini" THEN {"400"} ELSE {"400", "403"}

\* Mutant: one list of statuses for both clients.
AccountRefusedAlike(p, status) == status \in {"401", "402", "403", "400 names the key"}

\* _is_account_refusal (Gemini) and account_refused= (OpenRouter): OpenRouter
\* answers 403 also to one flagged question.
AccountRefused(p, status) ==
  \/ status \in {"401", "402"}
  \/ p = "gemini" /\ status \in {"403", "400 names the key"}

Busy == Cardinality({c \in Callers : caller[c].step = "posting"})

Settle(c, result) ==
  caller' = [caller EXCEPT ![c] = [@ EXCEPT !.step = "answered", !.result = result]]

\* A vector comes back while the account is open.
Vector(c) ==
  /\ caller[c].step = "posting" /\ account = "open"
  /\ Settle(c, "vector")
  /\ UNCHANGED <<provider, account, wasRefused, alert, lock, selfCheck, report,
                 asked, turns, faults>>

\* The account is refused: no retry.
Refused(c) ==
  /\ caller[c].step = "posting" /\ account = "refused"
  /\ \E status \in Refusals(provider) :
       Settle(c, IF AccountRefused(provider, status) THEN "refused" ELSE "failed")
  /\ UNCHANGED <<provider, account, wasRefused, alert, lock, selfCheck, report,
                 asked, turns, faults>>

\* A bad moment (408, 429, 5xx, a timeout): retried, a ping never.
Transient(c) ==
  /\ caller[c].step = "posting" /\ Fault
  /\ IF c \in Questions /\ caller[c].attempt < Retries
       THEN caller' = [caller EXCEPT ![c] = [caller[c] EXCEPT !.attempt = caller[c].attempt + 1]]
       ELSE Settle(c, "failed")
  /\ UNCHANGED <<provider, account, wasRefused, alert, lock, selfCheck, report,
                 asked, turns>>

\* One refused request, a transport error, an unusable body, a spending cap
\* or the backstop: no retry, and nothing is learned.
Failed(c) ==
  /\ caller[c].step = "posting" /\ Fault
  /\ \E status \in BadRequests(provider) \cup {"429"} :
       Settle(c, IF AccountRefused(provider, status) THEN "refused" ELSE "failed")
  /\ UNCHANGED <<provider, account, wasRefused, alert, lock, selfCheck, report,
                 asked, turns>>

----------------------------------------------------------------------------
(* Questions.                                                               *)

\* It waits for a slot and embeds its text.
AskQuestion(q) ==
  /\ caller[q] = AtRest /\ asked < MaxAsked /\ Busy < Slots
  /\ asked' = asked + 1
  /\ Becomes(q, "posting")
  /\ UNCHANGED <<provider, account, wasRefused, alert, lock, selfCheck, report,
                 turns, faults>>

\* Mutant: a vector leaves the key alone.
KeyAfterRefusals(result, key) == key \/ result = "refused"

\* record_failure and record_success: a refusal sets the key unless it is
\* there, a vector deletes it, any other failure leaves it.
KeyAfter(result, key) ==
  IF result = "refused" THEN TRUE ELSE IF result = "vector" THEN FALSE ELSE key

\* After the search (a question) or the ping.  A Redis call that fails or is
\* cut off changes nothing and fails nothing.
RecordResult(c) ==
  /\ caller[c].step = "answered"
  /\ \/ alert' = KeyAfter(caller[c].result, alert) /\ UNCHANGED faults
     \/ caller[c].result # "failed" /\ Fault /\ UNCHANGED alert
  /\ caller' = [caller EXCEPT ![c] =
       IF c \in Probes THEN [AtRest EXCEPT !.step = "reading"] ELSE AtRest]
  /\ UNCHANGED <<provider, account, wasRefused, lock, selfCheck, report, asked, turns>>

\* The search fails, or the process stops, before the result is recorded.
Lost(c) ==
  /\ caller[c].step \in {"posting", "answered"} /\ Fault
  /\ caller' = [caller EXCEPT ![c] = AtRest]
  /\ UNCHANGED <<provider, account, wasRefused, alert, lock, selfCheck, report,
                 asked, turns>>

----------------------------------------------------------------------------
(* GET /health/index.                                                       *)

\* No ping: it is off, every slot is taken, somebody has claimed the interval
\* or Redis did not answer.
SkipCheck(h) ==
  /\ caller[h] = AtRest
  /\ \/ (~ selfCheck \/ Busy >= Slots \/ lock) /\ UNCHANGED faults
     \/ Fault
  /\ Becomes(h, "reading")
  /\ UNCHANGED <<provider, account, wasRefused, alert, lock, selfCheck, report,
                 asked, turns>>

\* It claims the interval (SET NX EX) and sends the ping.
Ping(h) ==
  /\ caller[h] = AtRest /\ selfCheck /\ Busy < Slots /\ ~ lock
  /\ lock' = TRUE
  /\ Becomes(h, "posting")
  /\ UNCHANGED <<provider, account, wasRefused, alert, selfCheck, report, asked,
                 turns, faults>>

\* The interval is over.  It is ten minutes or more, a ping 20 seconds or less.
LockExpires ==
  /\ lock /\ \A h \in Probes : caller[h].step \notin {"posting", "answered"}
  /\ lock' = FALSE
  /\ UNCHANGED <<provider, account, wasRefused, alert, selfCheck, caller, report,
                 asked, turns, faults>>

\* status(): what the probe reports and the owner is mailed about.
Report(h) ==
  /\ caller[h].step = "reading"
  /\ \/ report' = (IF alert THEN "refused" ELSE "ok") /\ UNCHANGED faults
     \/ report' = "unavailable" /\ Fault
  /\ caller' = [caller EXCEPT ![h] = AtRest]
  /\ UNCHANGED <<provider, account, wasRefused, alert, lock, selfCheck, asked, turns>>

----------------------------------------------------------------------------
Answers(c) == Vector(c) \/ Refused(c) \/ Transient(c) \/ Failed(c)

HealthNext ==
  \/ AccountTurns \/ LockExpires
  \/ \E c \in Callers : Answers(c) \/ RecordResult(c) \/ Lost(c)
  \/ \E q \in Questions : AskQuestion(q)
  \/ \E h \in Probes : SkipCheck(h) \/ Ping(h) \/ Report(h)

\* Where the self-check is on, the cron calls the route for ever; every call
\* and interval ends.  Nobody has to ask, and the account need not change.
HealthFairness ==
  /\ \A c \in Callers : WF_healthVars(Answers(c) \/ RecordResult(c))
  /\ \A h \in Probes : WF_healthVars(selfCheck /\ (SkipCheck(h) \/ Ping(h)))
  /\ \A h \in Probes : WF_healthVars(Report(h))
  /\ WF_healthVars(LockExpires)

HealthSpec == HealthInit /\ [][HealthNext]_healthVars /\ HealthFairness

----------------------------------------------------------------------------
(* Properties.                                                              *)

\* The alert is set only if the provider has refused the account: no flagged
\* question, bad moment or failing Redis pages the owner (EmbedderUnavailable.
\* account_refused is the client's verdict on the account).
AlertIsEarned == alert => wasRefused

\* With the self-check on and no traffic at all, the probe comes to report for
\* good what the account has become for good: a refusal is learned without a
\* question and cleared after a top-up, whatever late results of earlier
\* calls, lost claims and failing Redis calls did to the key before.
AlertFollowsAccount ==
  /\ <>[](selfCheck /\ account = "refused") => <>[](report = "refused")
  /\ <>[](selfCheck /\ account = "open") => <>[](report = "ok")
=============================================================================

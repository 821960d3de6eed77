----------------------------- MODULE MCProgress -----------------------------
(* PaidCalls, Memberships, GroundedAnswers and EmbedderHealth in one        *)
(* instance for TLC, with fairness.  They share no state: a behaviour is    *)
(* one of one of them.                                                      *)
EXTENDS PaidCalls, Memberships, GroundedAnswers, EmbedderHealth

CONSTANTS c1, c2, c3, p1, p2, a1, s1, s2, h1, h2, d1, x1, w1, w2, q1

VARIABLE part

ProgressInit ==
  /\ part \in {"calls", "billing", "answers", "health"}
  /\ Init /\ BillingInit /\ AnswersInit /\ HealthInit
  /\ part # "health" => provider = "gemini" /\ ~ selfCheck

ProgressNext ==
  \/ part = "calls" /\ Next /\ UNCHANGED <<part, billingVars, answersVars, healthVars>>
  \/ part = "billing" /\ BillingNext /\ UNCHANGED <<part, vars, answersVars, healthVars>>
  \/ part = "answers" /\ AnswersNext /\ UNCHANGED <<part, vars, billingVars, healthVars>>
  \/ part = "health" /\ HealthNext /\ UNCHANGED <<part, vars, billingVars, answersVars>>

ProgressSpec ==
  /\ ProgressInit
  /\ [][ProgressNext]_<<part, vars, billingVars, answersVars, healthVars>>
  /\ CallsFairness /\ BillingFairness /\ AnswersFairness /\ HealthFairness

\* The types of all of them.
ProgressTypeOK == TypeOK /\ BillingTypeOK /\ AnswersTypeOK /\ HealthTypeOK

\* Every paid call, every request and every ingestion run comes to its end,
\* although calls queue for a slot, a run keeps its document's rows locked
\* while it waits for the provider, and another run and the INSERT of evidence
\* rows wait for those.
WorkEnds == CallsEnd /\ RequestsEnd /\ RunsEnd
=============================================================================

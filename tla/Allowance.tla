------------------------------ MODULE Allowance ------------------------------
(***************************************************************************)
(* How many answers an account may still ask for (access/quota.py,         *)
(* access/policy.py, access/deps.py, access/api_keys.py,                   *)
(* api/routes/messages.py, api/routes/mcp.py): a trial once, counted over  *)
(* every answer, and a monthly number for Pro, counted over this month's   *)
(* Pro answers. The allowance is checked before an answer is produced and  *)
(* the answer is recorded after it, under the tier it was admitted with.   *)
(*                                                                         *)
(* Covered: one account asking in the chat and over MCP at once; a plan    *)
(* that changes, an API key that is revoked and a month that ends while    *)
(* answers are produced; answers that do not count.                        *)
(*                                                                         *)
(* Not covered: the rate limits (RequestGuards) and the tombstone of a     *)
(* deleted account with the same address (AccountDeletion).                *)
(***************************************************************************)
EXTENDS Naturals, FiniteSets

CONSTANTS
  Questions,       \* questions that may be in progress at once
  TrialLimit,      \* Settings.access_free_trial_answers
  MonthlyLimit     \* Settings.access_pro_monthly_answers

ASSUME AllowanceAssumption ==
  /\ IsFiniteSet(Questions) /\ Questions # {}
  /\ TrialLimit \in Nat /\ MonthlyLimit \in Nat

VARIABLES
  plan,        \* the tier the memberships give the account now
  verified,    \* users.email_verified_at is set
  key,         \* the account's API key
  usage,       \* answer_usage: trial answers, this month's Pro answers, older ones
  question     \* what each question is doing, and the tier it was admitted with

allowanceVars == <<plan, verified, key, usage, question>>

Tiers == {"free", "pro"}

\* POLICY: what a tier may do, and which allowance it has.
HasCapability(tier, channel) == channel = "chat" \/ tier = "pro"

\* Pro answers of earlier months only matter until the trial is used up by them.
AtMostTrial(n) == IF n > TrialLimit THEN TrialLimit ELSE n

Used(tier) == IF tier = "pro" THEN usage.month ELSE usage.trial + usage.month + usage.older

Limit(tier) ==
  IF tier = "pro" THEN MonthlyLimit ELSE IF verified THEN TrialLimit ELSE 0

Authenticates(channel) == channel = "mcp" => key = "live"

Ask(q, channel) ==
  /\ question[q] = "idle"
  /\ Authenticates(channel) /\ HasCapability(plan, channel)
  /\ Used(plan) < Limit(plan)
  /\ question' = [question EXCEPT ![q] = plan]
  /\ UNCHANGED <<plan, verified, key, usage>>

\* Mutant: the row records the tier the account has when the answer is there.
TierAtAnswer(q) == plan

TierOf(q) == question[q]

UsageWith(tier) ==
  IF tier = "pro" THEN [usage EXCEPT !.month = @ + 1] ELSE [usage EXCEPT !.trial = @ + 1]

\* The answer cites something: its usage row commits with it.
RecordAnswer(q) ==
  /\ question[q] # "idle"
  /\ usage' = UsageWith(TierOf(q))
  /\ question' = [question EXCEPT ![q] = "idle"]
  /\ UNCHANGED <<plan, verified, key>>

\* A refusal, a greeting, a failure: nothing is recorded.
EndUncounted(q) ==
  /\ question[q] # "idle"
  /\ question' = [question EXCEPT ![q] = "idle"]
  /\ UNCHANGED <<plan, verified, key, usage>>

NewMonth ==
  /\ usage.month > 0
  /\ usage' = [usage EXCEPT !.older = AtMostTrial(@ + usage.month), !.month = 0]
  /\ UNCHANGED <<plan, verified, key, question>>

ChangePlan ==
  /\ plan' \in Tiers \ {plan}
  /\ UNCHANGED <<verified, key, usage, question>>

VerifyEmail ==
  /\ ~ verified /\ verified' = TRUE
  /\ UNCHANGED <<plan, key, usage, question>>

\* A key is made by a Pro account; revoking it is for good.
MakeKey ==
  /\ key = "none" /\ plan = "pro" /\ key' = "live"
  /\ UNCHANGED <<plan, verified, usage, question>>

RevokeKey ==
  /\ key = "live" /\ key' = "revoked"
  /\ UNCHANGED <<plan, verified, usage, question>>

AllowanceInit ==
  /\ plan \in Tiers /\ verified = FALSE /\ key = "none"
  /\ usage = [trial |-> 0, month |-> 0, older |-> 0]
  /\ question = [q \in Questions |-> "idle"]

AllowanceNext ==
  \/ \E q \in Questions :
        \/ \E channel \in {"chat", "mcp"} : Ask(q, channel)
        \/ RecordAnswer(q) \/ EndUncounted(q)
  \/ NewMonth \/ ChangePlan \/ VerifyEmail \/ MakeKey \/ RevokeKey

AllowanceSpec == AllowanceInit /\ [][AllowanceNext]_allowanceVars

----------------------------------------------------------------------------
AllowanceTypeOK ==
  /\ plan \in Tiers /\ verified \in BOOLEAN /\ key \in {"none", "live", "revoked"}
  /\ usage \in [trial : Nat, month : Nat, older : Nat]
  /\ question \in [Questions -> Tiers \cup {"idle"}]

(* A trial or a month is exceeded by no more than the other questions in   *)
(* progress, however the plan changes between the check and the row        *)
(* (quota.py: "The overshoot is bounded by how many requests one account   *)
(* has in flight").                                                        *)
AllowanceIsBounded ==
  /\ usage.trial < TrialLimit + Cardinality(Questions)
  /\ usage.month < MonthlyLimit + Cardinality(Questions)
============================================================================

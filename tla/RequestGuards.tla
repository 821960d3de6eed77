---------------------------- MODULE RequestGuards ----------------------------
(***************************************************************************)
(* What a request passes before a route handles it: the bot check          *)
(* (access/bot_check.py, core/pow.py), used once, and the sliding-window   *)
(* rate limits (core/rate_limit.py), one bucket for every visitor, account *)
(* or address and one for everybody.                                       *)
(*                                                                         *)
(* Covered: requests that read the clock, wait, and then change a bucket   *)
(* or the table of used solutions in another order; Redis failing before   *)
(* or after its script ran, and running it late; keys that expire; a       *)
(* solution presented several times, also after its row was deleted.       *)
(* MaxDelay is the longest wait that still succeeds: none for the limiter  *)
(* inside a process, whose lock is never held over an await, five seconds  *)
(* for Redis (socket_timeout).                                             *)
(*                                                                         *)
(* Not covered: a Redis that loses its data, clocks of several machines    *)
(* further apart than MaxDelay, limits that are switched off, and the      *)
(* notice mails a limit only silences (email_notice_allowed).              *)
(***************************************************************************)
EXTENDS Integers, Sequences, FiniteSets

CONSTANTS
  Requests,    \* requests ever made
  Visitors,    \* buckets of visitors: a registered account or a network address
  Limit,       \* limit_for: the hits a bucket admits in its window
  Window,      \* window_for
  Challenges,  \* proof-of-work challenges
  Expiry,      \* the expiry each challenge carries
  Margin,      \* _CLEANUP_MARGIN
  MaxDelay,    \* longest time between reading the clock and what succeeds with it
  None,
  MaxClock     \* bound: time

Global == "demo_global"

Interval == "magic_link_interval"

Address == "magic_link"

Buckets == Visitors \cup {Global, Interval, Address}

ASSUME RequestGuardsAssumption ==
  /\ Limit \in [Buckets -> Nat \ {0}] /\ Window \in [Buckets -> Nat \ {0}]
  /\ Expiry \in [Challenges -> Nat]
  /\ None \notin Challenges
  /\ Margin \in Nat /\ MaxDelay \in Nat /\ MaxDelay <= Margin /\ MaxClock \in Nat

VARIABLES
  clock,
  bucket,      \* the hits each bucket holds
  request,     \* what each request is doing
  used,        \* bot_check_uses: challenges with a row
  admitted,    \* history: hits whose request was told to go on
  paid         \* history: requests that went on with each challenge

guardVars == <<clock, bucket, request, used, admitted, paid>>

Hit == [by : Requests, stamp : Nat, ran : Nat]

Request == [step : {"new", "solved", "waiting", "asked", "late", "refused"},
            challenge : Challenges \cup {None}, left : Seq(Buckets), now : Nat]

Idle == [step |-> "new", challenge |-> None, left |-> <<>>, now |-> 0]

\* The buckets of a page and of an emailed link.
Route(kind, v) ==
  CASE kind = "page" -> <<v, Global>>
    [] kind = "link" -> <<v, Global, Interval, Address>>

Kinds == {"page", "link"}

\* Mutant: a request that was let on still has its solution.
WaitsHolding(q, left) ==
  request' = [request EXCEPT ![q] = [request[q] EXCEPT !.step = "waiting", !.left = left, !.now = 0]]

Waits(q, left) ==
  request' = [request EXCEPT ![q] = [step |-> "waiting", challenge |-> None, left |-> left, now |-> 0]]

Refused(q) ==
  request' = [request EXCEPT ![q] =
     [step |-> "refused", challenge |-> None, left |-> <<>>, now |-> 0]]

\* Who must wait no longer: it has read the clock and not used it yet.
Hurried == {q \in Requests : request[q].step \in {"solved", "asked"}}

\* A key goes a second after the window of the last hit added.
Expired(b) == \A h \in bucket[b] : clock >= h.ran + Window[b]

Tick ==
  /\ clock < MaxClock
  /\ \A q \in Hurried : clock < request[q].now + MaxDelay
  /\ clock' = clock + 1
  /\ bucket' = [b \in Buckets |-> IF Expired(b) THEN {} ELSE bucket[b]]
  /\ UNCHANGED <<request, used, admitted, paid>>

----------------------------------------------------------------------------
(* The bot check.                                                          *)

\* Only a link is asked for with a solution, which has not expired.
Arrive(q, kind, v, c) ==
  /\ request[q].step = "new"
  /\ c = None <=> kind # "link"
  /\ c # None => Expiry[c] > clock
  /\ request' = [request EXCEPT ![q] =
        [step |-> IF c = None THEN "waiting" ELSE "solved", challenge |-> c,
         left |-> Route(kind, v), now |-> IF c = None THEN 0 ELSE clock]]
  /\ UNCHANGED <<clock, bucket, used, admitted, paid>>

\* Mutant: rows are deleted as soon as their challenge has expired.
CleanedAtExpiry(now) == {c \in used : Expiry[c] > now}

Cleaned(now) == {c \in used : Expiry[c] >= now - Margin}

\* Rows long expired are deleted and the solution's is inserted, in one
\* transaction; the primary key refuses it a second time.
UseOnce(q) ==
  LET c == request[q].challenge
      rows == Cleaned(request[q].now) IN
  /\ request[q].step = "solved"
  /\ IF c \in rows
     THEN Refused(q) /\ UNCHANGED <<used, paid>>
     ELSE /\ Waits(q, request[q].left)
          /\ used' = rows \cup {c}
          /\ paid' = [paid EXCEPT ![c] = @ \cup {q}]
  /\ UNCHANGED <<clock, bucket, admitted>>

----------------------------------------------------------------------------
(* The rate limits.                                                        *)

\* check: the caller reads the clock before it waits for its turn. (With no bucket
\* left the route handles the request.)
ReadClock(q) ==
  /\ request[q].step = "waiting" /\ request[q].left # <<>>
  /\ request' = [request EXCEPT ![q] = [request[q] EXCEPT !.step = "asked", !.now = clock]]
  /\ UNCHANGED <<clock, bucket, used, admitted, paid>>

\* What is left of a bucket after the script has evicted the hits of the past.
Kept(b, now) == {h \in bucket[b] : h.stamp > now - Window[b]}

\* Mutant: the limit is off by one.
AdmitsAtLimit(b, now) == Cardinality(Kept(b, now)) <= Limit[b]

\* The script: evict, count, and add unless the limit is reached.
Admits(b, now) == Cardinality(Kept(b, now)) < Limit[b]

Added(b, now, h) == IF Admits(b, now) THEN Kept(b, now) \cup {h} ELSE Kept(b, now)

TheHit(q) == [by |-> q, stamp |-> request[q].now, ran |-> clock]

Check(q) ==
  LET b == Head(request[q].left)
      now == request[q].now IN
  /\ request[q].step = "asked"
  /\ bucket' = [bucket EXCEPT ![b] = Added(b, now, TheHit(q))]
  /\ IF Admits(b, now)
     THEN /\ Waits(q, Tail(request[q].left))
          /\ admitted' = [admitted EXCEPT ![b] = @ \cup {TheHit(q)}]
     ELSE Refused(q) /\ UNCHANGED admitted
  /\ UNCHANGED <<clock, used, paid>>

\* Redis does not answer in time: 503. It may still run the script, at any time.
RedisFails(q) ==
  /\ request[q].step = "asked"
  /\ request' = [request EXCEPT ![q] = [request[q] EXCEPT !.step = "late"]]
  /\ UNCHANGED <<clock, bucket, used, admitted, paid>>

RunsLate(q) ==
  LET b == Head(request[q].left) IN
  /\ request[q].step = "late" /\ Refused(q)
  /\ bucket' = [bucket EXCEPT ![b] = Added(b, request[q].now, TheHit(q))]
  /\ UNCHANGED <<clock, used, admitted, paid>>

----------------------------------------------------------------------------
GuardsInit ==
  /\ clock = 0
  /\ bucket = [b \in Buckets |-> {}] /\ admitted = [b \in Buckets |-> {}]
  /\ request = [q \in Requests |-> Idle]
  /\ used = {} /\ paid = [c \in Challenges |-> {}]

GuardStep(q) ==
  \/ \E kind \in Kinds, v \in Visitors, c \in Challenges \cup {None} : Arrive(q, kind, v, c)
  \/ UseOnce(q) \/ ReadClock(q) \/ Check(q) \/ RedisFails(q) \/ RunsLate(q)

GuardsNext ==
  \/ Tick
  \/ \E q \in Requests : GuardStep(q)

GuardsSpec == GuardsInit /\ [][GuardsNext]_guardVars

----------------------------------------------------------------------------
GuardsTypeOK ==
  /\ clock \in Nat
  /\ bucket \in [Buckets -> SUBSET Hit] /\ admitted \in [Buckets -> SUBSET Hit]
  /\ request \in [Requests -> Request]
  /\ \A q \in Requests : request[q].challenge # None <=> request[q].step = "solved"
  /\ used \in SUBSET Challenges /\ paid \in [Challenges -> SUBSET Requests]

(* The hits a bucket let through in a window never pass its limit, however *)
(* requests overtake each other between reading the clock and the script,  *)
(* and whatever Redis runs late (rate_limit.py: "two uvicorn workers       *)
(* cannot both observe count == limit-1 and both succeed"). A hit may have *)
(* waited MaxDelay, so the window is shorter by that much.                 *)
RecentlyAdmitted(b) == {h \in admitted[b] : h.ran + Window[b] > clock + MaxDelay}

WindowIsBounded == \A b \in Buckets : Cardinality(RecentlyAdmitted(b)) <= Limit[b]

(* A solution lets one request on, although its row is deleted later       *)
(* (bot_check.py, _use_once: "a margin keeps the two rules from ever       *)
(* overlapping").                                                          *)
SolutionPaysOnce == \A c \in Challenges : Cardinality(paid[c]) <= 1
============================================================================

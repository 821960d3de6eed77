------------------------------ MODULE PaidCalls ------------------------------
(***************************************************************************)
(* Calls that cost money: the wrapper around the language model and the    *)
(* embedder (cost/metered.py), the daily budget it checks first            *)
(* (cost/budget.py), the slot it holds while the provider works            *)
(* (cost/admission.py) and the spend row it writes last (cost/meter.py).   *)
(*                                                                         *)
(* Covered: the check, the wait, the call and the row as separate steps of *)
(* concurrent calls in several processes; first-in first-out waiting for a *)
(* slot; a provider that fails, a caller that is cancelled at any point, a *)
(* spend table that cannot be read or written, a process that dies, the    *)
(* UTC day that rolls over.                                                *)
(*                                                                         *)
(* Not covered: how tokens become a price (a call costs at most MaxCost),  *)
(* the soft limit (it only logs), the kill switch, a cap changed at run    *)
(* time, and calls of empty texts, which reach no provider.                *)
(***************************************************************************)
EXTENDS Naturals, Sequences, FiniteSets

CONSTANTS
  Calls,       \* calls that may be in progress at once
  Processes,   \* processes of the application
  None,        \* a call that is not in progress has no process
  Cap,         \* Settings.cost_max_concurrent_calls
  HardLimit,   \* Settings.cost_hard_daily_usd
  MaxCost,     \* the most one call can cost
  FailClosed,  \* Settings.cost_budget_fail_closed
  MaxIngests   \* bound: calls made by ingestion

ASSUME CallsAssumption == IsFiniteSet(Calls)
ASSUME ProcessesAssumption == None \notin Processes
ASSUME LimitsAssumption ==
  Cap \in Nat \ {0} /\ HardLimit \in Nat /\ MaxCost \in Nat /\ MaxIngests \in Nat
ASSUME FailClosedAssumption == FailClosed \in BOOLEAN

VARIABLES
  call,     \* what each call is doing, where, and on whose behalf
  free,     \* value of each process's semaphore
  queue,    \* tasks waiting in each process's semaphore
  spent,    \* sum of today's provider_calls rows
  userSpent,\* history: the part of spent that is not ingestion's
  ingests   \* number of ingestion calls begun

vars == <<call, free, queue, spent, userSpent, ingests>>

Sites == {"answer", "ingest"}

NoCall == [phase |-> "idle", site |-> "answer", process |-> None]

CallType == [phase : {"idle", "waiting", "calling", "metering"},
             site : Sites, process : Processes \cup {None}]

\* A call stands in a queue once, or not at all.
Without(q, c) ==
  IF \E i \in DOMAIN q : q[i] = c
  THEN LET i == CHOOSE j \in DOMAIN q : q[j] = c
       IN  SubSeq(q, 1, i - 1) \o SubSeq(q, i + 1, Len(q))
  ELSE q

----------------------------------------------------------------------------
(* enforce_budget, on a sum of the rows committed so far.                  *)

WithinBudget == spent < HardLimit

\* Mutant: a spend table that cannot be read admits everybody.
AdmitsUnread(site) == TRUE

\* The table cannot be read: the setting decides, except for ingestion, which
\* is never asked.
AdmitsBlind(site) == site = "ingest" \/ ~ FailClosed

Admits(site) == site = "ingest" \/ WithinBudget

\* Mutant: a call does not know the process whose slot it takes.
BeginAnywhere(c, p, site) ==
  /\ call[c].phase = "idle"
  /\ Admits(site) \/ AdmitsBlind(site)
  /\ site = "ingest" => ingests < MaxIngests
  /\ ingests' = IF site = "ingest" THEN ingests + 1 ELSE ingests
  /\ call' = [call EXCEPT ![c].phase = "waiting", ![c].site = site]
  /\ queue' = [queue EXCEPT ![p] = Append(@, c)]
  /\ UNCHANGED <<free, spent, userSpent>>

Begin(c, p, site) ==
  /\ call[c].phase = "idle"
  /\ Admits(site) \/ AdmitsBlind(site)
  /\ site = "ingest" => ingests < MaxIngests
  /\ ingests' = IF site = "ingest" THEN ingests + 1 ELSE ingests
  /\ call' = [call EXCEPT ![c] = [phase |-> "waiting", site |-> site, process |-> p]]
  /\ queue' = [queue EXCEPT ![p] = Append(@, c)]
  /\ UNCHANGED <<free, spent, userSpent>>

----------------------------------------------------------------------------
(* The slot, held while the provider works.                                *)

Enter(c) ==
  LET p == call[c].process IN
  /\ call[c].phase = "waiting"
  /\ queue[p] # <<>> /\ Head(queue[p]) = c
  /\ free[p] > 0
  /\ free' = [free EXCEPT ![p] = @ - 1]
  /\ queue' = [queue EXCEPT ![p] = Tail(@)]
  /\ call' = [call EXCEPT ![c].phase = "calling"]
  /\ UNCHANGED <<spent, userSpent, ingests>>

Answer(c) ==
  /\ call[c].phase = "calling"
  /\ free' = [free EXCEPT ![call[c].process] = @ + 1]
  /\ call' = [call EXCEPT ![c].phase = "metering"]
  /\ UNCHANGED <<queue, spent, userSpent, ingests>>

\* Mutant: a provider that fails keeps the slot.
ProviderFailsKeepingSlot(c) ==
  /\ call[c].phase = "calling"
  /\ call' = [call EXCEPT ![c] = NoCall]
  /\ UNCHANGED <<free, queue, spent, userSpent, ingests>>

ProviderFails(c) ==
  /\ call[c].phase = "calling"
  /\ free' = [free EXCEPT ![call[c].process] = @ + 1]
  /\ call' = [call EXCEPT ![c] = NoCall]
  /\ UNCHANGED <<queue, spent, userSpent, ingests>>

----------------------------------------------------------------------------
(* The spend row, in a transaction of its own.                             *)

Record(c) ==
  /\ call[c].phase = "metering"
  /\ \E cost \in 0 .. MaxCost :
       /\ spent' = spent + cost
       /\ userSpent' = IF call[c].site = "ingest" THEN userSpent ELSE userSpent + cost
  /\ call' = [call EXCEPT ![c] = NoCall]
  /\ UNCHANGED <<free, queue, ingests>>

\* The row is lost; the caller is answered all the same.
RecordFails(c) ==
  /\ call[c].phase = "metering"
  /\ call' = [call EXCEPT ![c] = NoCall]
  /\ UNCHANGED <<free, queue, spent, userSpent, ingests>>

\* Mutant: a caller that goes away while it waits stays in the queue.
CancelKeepingPlace(c) ==
  LET p == call[c].process IN
  /\ call[c].phase # "idle"
  /\ free' = [q \in Processes |-> IF q = p /\ call[c].phase = "calling"
                                  THEN free[q] + 1 ELSE free[q]]
  /\ call' = [call EXCEPT ![c] = NoCall]
  /\ UNCHANGED <<queue, spent, userSpent, ingests>>

\* The caller goes away: asyncio gives the place or the slot back.
Cancel(c) ==
  LET p == call[c].process IN
  /\ call[c].phase # "idle"
  /\ free' = [q \in Processes |-> IF q = p /\ call[c].phase = "calling"
                                  THEN free[q] + 1 ELSE free[q]]
  /\ queue' = [queue EXCEPT ![p] = Without(@, c)]
  /\ call' = [call EXCEPT ![c] = NoCall]
  /\ UNCHANGED <<spent, userSpent, ingests>>

\* A process dies with its calls and its semaphore; the rows stay.
Restart(p) ==
  /\ free' = [free EXCEPT ![p] = Cap]
  /\ queue' = [queue EXCEPT ![p] = <<>>]
  /\ call' = [c \in Calls |-> IF call[c].process = p THEN NoCall ELSE call[c]]
  /\ UNCHANGED <<spent, userSpent, ingests>>

\* The sum starts at midnight UTC; calls in progress are charged to the new day.
Midnight ==
  /\ spent' = 0
  /\ userSpent' = 0
  /\ UNCHANGED <<call, free, queue, ingests>>

----------------------------------------------------------------------------
Init ==
  /\ call = [c \in Calls |-> NoCall]
  /\ free = [p \in Processes |-> Cap]
  /\ queue = [p \in Processes |-> <<>>]
  /\ spent = 0
  /\ userSpent = 0
  /\ ingests = 0

Finish(c) == Answer(c) \/ ProviderFails(c)

Meter(c) == Record(c) \/ RecordFails(c)

Next ==
  \/ \E c \in Calls, p \in Processes, site \in Sites : Begin(c, p, site)
  \/ \E c \in Calls : Enter(c) \/ Finish(c) \/ Meter(c) \/ Cancel(c)
  \/ \E p \in Processes : Restart(p)
  \/ Midnight

Spec == Init /\ [][Next]_vars

\* The event loop runs what is ready, and every provider call times out.
CallsFairness ==
  \A c \in Calls : WF_vars(Enter(c)) /\ WF_vars(Finish(c)) /\ WF_vars(Meter(c))

FairSpec == Spec /\ CallsFairness

----------------------------------------------------------------------------
(* Properties.                                                             *)

InPhase(p, phase) == {c \in Calls : call[c].process = p /\ call[c].phase = phase}

\* Types; a call has a process exactly while it is in progress.
TypeOK ==
  /\ call \in [Calls -> CallType]
  /\ \A c \in Calls : call[c].phase # "idle" <=> call[c].process \in Processes
  /\ free \in [Processes -> Nat]
  /\ queue \in [Processes -> Seq(Calls)]
  /\ spent \in Nat /\ userSpent \in Nat /\ ingests \in 0 .. MaxIngests

\* No slot is lost and none is handed out twice, whatever fails or is
\* cancelled: free slots and calls at the provider always add up to the cap,
\* so no more than Cap calls of a process are in flight (admission.py).
SlotsAddUp ==
  \A p \in Processes : free[p] + Cardinality(InPhase(p, "calling")) = Cap

UserCalls == {c \in Calls : call[c].phase # "idle" /\ call[c].site = "answer"}

\* How far a day's rows of user calls can pass the hard limit: by what the
\* calls in progress at once can cost, across processes, restarts, failed
\* writes and midnight, as long as an unreadable table refuses.
BurstIsBounded ==
  FailClosed => userSpent + MaxCost * Cardinality(UserCalls)
                  =< HardLimit + MaxCost * Cardinality(Calls)

\* A call never waits for ever for a slot, nor keeps one for ever.
CallsEnd == \A c \in Calls : []<>(call[c].phase = "idle")

=============================================================================

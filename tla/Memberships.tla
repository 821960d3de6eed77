----------------------------- MODULE Memberships -----------------------------
(***************************************************************************)
(* Memberships from Stripe's events (billing/memberships.py,               *)
(* api/routes/billing.py, billing/stripe_client.py): which account is Pro  *)
(* is decided from rows that webhooks keep current, one row for every      *)
(* subscription.                                                           *)
(*                                                                         *)
(* Covered: checkouts in several tabs; a subscription that changes at      *)
(* Stripe at any moment; events delivered in any order, again after they   *)
(* were applied or failed, and to several handlers at once; the two reads  *)
(* of the live subscription, before and inside the lock on the account;    *)
(* Stripe or the process failing at any point; metadata cleared at Stripe; *)
(* the grace after a failed payment; an account deleted meanwhile.         *)
(*                                                                         *)
(* Not covered: signatures, prices and intervals, events that name no      *)
(* subscription, and metadata edited to name another account before the    *)
(* first event of a subscription is applied.                               *)
(***************************************************************************)
EXTENDS Naturals, FiniteSets

CONSTANTS
  Accounts,    \* accounts that exist at first
  Subs,        \* subscriptions
  Handlers,    \* requests that handle a webhook
  Nobody,        \* nobody, no event
  MaxEvents,   \* bound: changes of subscriptions at Stripe
  MaxFailures  \* bound: failed requests of Stripe

ASSUME MembershipsAssumption ==
  /\ Nobody \notin Accounts /\ Nobody \notin Subs /\ Nobody \notin Handlers
  /\ MaxEvents \in Nat /\ MaxFailures \in Nat

VARIABLES
  live,      \* what Stripe holds about each subscription
  rows,      \* memberships, one row for a subscription
  applied,   \* stripe_events: the events logged
  accounts,  \* users
  userLock,  \* who holds the users row of an account FOR UPDATE
  handler,   \* what each webhook request is doing
  failures   \* number of requests that failed

billingVars == <<live, rows, applied, accounts, userLock, handler, failures>>

Statuses == {"active", "past_due", "canceled"}

\* Statuses that can no longer bill.
ENDED_STATUSES == {"canceled"}

Graces == {"none", "running", "over"}

Subscription == [version : Nat, status : Statuses, buyer : Accounts \cup {Nobody}, named : BOOLEAN]

Row == [account : Accounts, status : Statuses, version : Nat, grace : Graces]

NoRow == [account |-> Nobody, status |-> "canceled", version |-> 0, grace |-> "none"]

\* Every change of a subscription is announced by an event of its own.
Event == [sub : Subs, version : Nat]

NoEvent == [sub |-> Nobody, version |-> 0]

Idle == [phase |-> "idle", event |-> NoEvent, named |-> FALSE, seen |-> NoRow]

Events == [sub : Subs, version : 1 .. MaxEvents]

Emitted == {e \in Events : e.version <= live[e.sub].version}

MayEmit == Cardinality(Emitted) < MaxEvents

RowsOf(a) == {s \in Subs : rows[s].account = a}

----------------------------------------------------------------------------
(* Who is Pro.                                                             *)

\* Mutant: a failed payment leaves the account Pro while Stripe tries again.
IsProWhilePastDue(m) == m.status \in {"active", "past_due"}

IsPro(m) == m.status = "active" \/ (m.status = "past_due" /\ m.grace = "running")

AccountIsPro(a) == \E s \in RowsOf(a) : IsPro(rows[s])

----------------------------------------------------------------------------
(* The browser, Stripe, and time.                                          *)

\* The subscription will carry the account it was bought for in its metadata.
CheckoutSession(a) == [version |-> 0, status |-> "active", buyer |-> a, named |-> TRUE]

\* A checkout opened in a tab: refused to an account that is Pro already.
StartCheckout(a, s) ==
  /\ a \in accounts /\ ~ AccountIsPro(a)
  /\ live[s].buyer = Nobody
  /\ live' = [live EXCEPT ![s] = CheckoutSession(a)]
  /\ UNCHANGED <<rows, applied, accounts, userLock, handler, failures>>

CompleteCheckout(s) ==
  /\ live[s].buyer # Nobody /\ live[s].version = 0 /\ MayEmit
  /\ live' = [live EXCEPT ![s].version = 1]
  /\ UNCHANGED <<rows, applied, accounts, userLock, handler, failures>>

\* A payment fails, succeeds after all, or the subscription ends.
Change(s, status) ==
  /\ live[s].version > 0 /\ MayEmit
  /\ live[s].status \notin ENDED_STATUSES /\ live[s].status # status
  /\ live' = [live EXCEPT ![s].version = @ + 1, ![s].status = status]
  /\ UNCHANGED <<rows, applied, accounts, userLock, handler, failures>>

\* The metadata our checkout wrote is cleared at Stripe.
ClearMetadata(s) ==
  /\ live[s].named /\ live[s].version > 0 /\ MayEmit
  /\ rows[s] # NoRow
  /\ live' = [live EXCEPT ![s].version = @ + 1, ![s].named = FALSE]
  /\ UNCHANGED <<rows, applied, accounts, userLock, handler, failures>>

GraceEnds(s) ==
  /\ rows[s].grace = "running"
  /\ rows' = [rows EXCEPT ![s].grace = "over"]
  /\ UNCHANGED <<live, applied, accounts, userLock, handler, failures>>

\* account_deletion refuses while a subscription can bill; the rows go with the
\* account.
DeleteAccount(a) ==
  /\ a \in accounts /\ userLock[a] = Nobody
  /\ \A s \in RowsOf(a) : rows[s].status \in ENDED_STATUSES
  /\ accounts' = accounts \ {a}
  /\ rows' = [s \in Subs |-> IF rows[s].account = a THEN NoRow ELSE rows[s]]
  /\ UNCHANGED <<live, applied, userLock, handler, failures>>

----------------------------------------------------------------------------
(* A webhook: apply_event and _sync.                                       *)

\* The event is not in the log, and the subscription is read for the first time.
Receive(h, e) ==
  /\ handler[h].phase = "idle"
  /\ e \in Emitted \ applied
  /\ handler' = [handler EXCEPT ![h] = [phase |-> "claimed", event |-> e,
                                        named |-> live[e.sub].named, seen |-> NoRow]]
  /\ UNCHANGED <<live, rows, applied, accounts, userLock, failures>>

\* The account a subscription is bound to: that of its row, else the one its
\* metadata names. (Both are the buyer; without either it matches nobody.)
Bind(h) ==
  LET s == handler[h].event.sub IN
  /\ handler[h].phase = "claimed"
  /\ handler' = [handler EXCEPT
        ![h].phase = IF rows[s] # NoRow \/ handler[h].named THEN "bound" ELSE "unmatched"]
  /\ UNCHANGED <<live, rows, applied, accounts, userLock, failures>>

Account(h) == live[handler[h].event.sub].buyer

\* Mutant: handlers of one account do not wait for each other.
LockNobody(h) ==
  /\ handler[h].phase = "bound"
  /\ Account(h) \in accounts
  /\ handler' = [handler EXCEPT ![h].phase = "locked"]
  /\ UNCHANGED <<live, rows, applied, accounts, userLock, failures>>

LockUser(h) ==
  /\ handler[h].phase = "bound"
  /\ Account(h) \in accounts /\ userLock[Account(h)] = Nobody
  /\ userLock' = [userLock EXCEPT ![Account(h)] = h]
  /\ handler' = [handler EXCEPT ![h].phase = "locked"]
  /\ UNCHANGED <<live, rows, applied, accounts, failures>>

AccountMissing(h) ==
  /\ handler[h].phase = "bound"
  /\ Account(h) \notin accounts
  /\ handler' = [handler EXCEPT ![h].phase = "unmatched"]
  /\ UNCHANGED <<live, rows, applied, accounts, userLock, failures>>

\* What Stripe answers about a subscription, for the account it is bound to.
Retrieved(s) == [account |-> live[s].buyer, status |-> live[s].status,
                 version |-> live[s].version, grace |-> "none"]

\* Mutant: the account is the one the metadata names now.
FetchClaiming(h) ==
  /\ handler[h].phase = "locked"
  /\ LET s == handler[h].event.sub
         m == [Retrieved(s) EXCEPT !.account = IF live[s].named THEN @ ELSE Nobody]
     IN  handler' = [handler EXCEPT ![h].seen = m, ![h].phase = "fetched"]
  /\ UNCHANGED <<live, rows, applied, accounts, userLock, failures>>

\* The second read, inside the lock.
Fetch(h) ==
  /\ handler[h].phase = "locked"
  /\ handler' = [handler EXCEPT ![h].seen = Retrieved(handler[h].event.sub), ![h].phase = "fetched"]
  /\ UNCHANGED <<live, rows, applied, accounts, userLock, failures>>

\* The grace starts the first time a subscription is seen past due, and is
\* cleared whenever it is not.
GraceAfter(s, status) ==
  IF status # "past_due" THEN "none"
  ELSE IF rows[s].grace = "none" THEN "running" ELSE rows[s].grace

Stored(s, m) == [m EXCEPT !.grace = GraceAfter(s, m.status)]

Apply(h) ==
  LET e == handler[h].event IN
  /\ handler[h].phase = "fetched" /\ e \notin applied
  /\ rows' = [rows EXCEPT ![e.sub] = Stored(e.sub, handler[h].seen)]
  /\ applied' = applied \cup {e}
  /\ userLock' = [userLock EXCEPT ![Account(h)] = Nobody]
  /\ handler' = [handler EXCEPT ![h] = Idle]
  /\ UNCHANGED <<live, accounts, failures>>

LogUnmatched(h) ==
  /\ handler[h].phase = "unmatched" /\ handler[h].event \notin applied
  /\ applied' = applied \cup {handler[h].event}
  /\ handler' = [handler EXCEPT ![h] = Idle]
  /\ UNCHANGED <<live, rows, accounts, userLock, failures>>

Released(h) == [a \in Accounts |-> IF userLock[a] = h THEN Nobody ELSE userLock[a]]

\* Another handler of the same event was faster: its row is there, ours is
\* refused, and nothing of the transaction stays.
Conflict(h) ==
  /\ handler[h].phase \in {"fetched", "unmatched"} /\ handler[h].event \in applied
  /\ userLock' = Released(h)
  /\ handler' = [handler EXCEPT ![h] = Idle]
  /\ UNCHANGED <<live, rows, applied, accounts, failures>>

\* Mutant: a failed read is logged all the same.
FailLogging(h) ==
  /\ handler[h].phase # "idle" /\ failures < MaxFailures
  /\ failures' = failures + 1
  /\ applied' = applied \cup {handler[h].event}
  /\ userLock' = Released(h)
  /\ handler' = [handler EXCEPT ![h] = Idle]
  /\ UNCHANGED <<live, rows, accounts>>

\* Stripe cannot be read, or the process dies: nothing is logged, and Stripe
\* delivers the event again.
Fail(h) ==
  /\ handler[h].phase # "idle" /\ failures < MaxFailures
  /\ failures' = failures + 1
  /\ userLock' = Released(h)
  /\ handler' = [handler EXCEPT ![h] = Idle]
  /\ UNCHANGED <<live, rows, applied, accounts>>

----------------------------------------------------------------------------
BillingInit ==
  /\ live = [s \in Subs |-> [version |-> 0, status |-> "active", buyer |-> Nobody, named |-> FALSE]]
  /\ rows = [s \in Subs |-> NoRow]
  /\ applied = {}
  /\ accounts = Accounts
  /\ userLock = [a \in Accounts |-> Nobody]
  /\ handler = [h \in Handlers |-> Idle]
  /\ failures = 0

HandlerStep(h) ==
  \/ Bind(h) \/ LockUser(h) \/ AccountMissing(h) \/ Fetch(h)
  \/ Apply(h) \/ LogUnmatched(h) \/ Conflict(h)

BillingNext ==
  \/ \E a \in Accounts, s \in Subs : StartCheckout(a, s)
  \/ \E s \in Subs : CompleteCheckout(s) \/ ClearMetadata(s) \/ GraceEnds(s)
  \/ \E s \in Subs, status \in Statuses : Change(s, status)
  \/ \E a \in Accounts : DeleteAccount(a)
  \/ \E h \in Handlers, e \in Events : Receive(h, e)
  \/ \E h \in Handlers : HandlerStep(h) \/ Fail(h)

BillingSpec == BillingInit /\ [][BillingNext]_billingVars

\* Stripe goes on delivering an event that was not acknowledged, a request that
\* has begun goes on, and time passes.
BillingFairness ==
  /\ \A e \in Events : WF_billingVars(\E h \in Handlers : Receive(h, e))
  /\ \A h \in Handlers : WF_billingVars(HandlerStep(h))
  /\ \A s \in Subs : WF_billingVars(GraceEnds(s))

BillingFairSpec == BillingSpec /\ BillingFairness

----------------------------------------------------------------------------
(* Types.                                                                  *)

BillingTypeOK ==
  /\ live \in [Subs -> Subscription]
  /\ rows \in [Subs -> Row \cup {NoRow}]
  /\ applied \subseteq Event
  /\ accounts \subseteq Accounts
  /\ userLock \in [Accounts -> Handlers \cup {Nobody}]
  /\ failures \in Nat
  /\ handler \in [Handlers -> [phase : {"idle", "claimed", "bound", "locked", "fetched", "unmatched"},
                               event : Event \cup {NoEvent}, named : BOOLEAN,
                               seen : Row \cup {NoRow}]]

(* A row never goes back to an older state of its subscription, and never  *)
(* moves to another account, whatever the order of deliveries and however  *)
(* slow a handler: the lock, the second read and the row found by its      *)
(* subscription (memberships.py, "No lost update", "Bound once").          *)
RowsNeverGoBack ==
  [][\A s \in Subs : rows[s] # NoRow /\ rows'[s] # NoRow =>
        rows'[s].version >= rows[s].version /\ rows'[s].account = rows[s].account]_billingVars

(* Once Stripe has nothing left to deliver, the row of a subscription says *)
(* what Stripe says, and an account that exists has a row for each         *)
(* subscription bought for it: no event was dismissed that still mattered  *)
(* ("delivery order cannot matter", "nothing is logged, so the retry       *)
(* applies").                                                              *)
SettledRowsAreCurrent ==
  \A s \in Subs :
     (\A n \in 1 .. live[s].version : [sub |-> s, version |-> n] \in applied) =>
        /\ rows[s] # NoRow => rows[s].version = live[s].version
                              /\ rows[s].status = live[s].status
        /\ live[s].version > 0 /\ live[s].buyer \in accounts => rows[s] # NoRow

(* In the end an account is Pro exactly when one of its subscriptions is   *)
(* paid at Stripe: every change arrives, and a grace ends                  *)
(* (memberships.py, is_pro, _store).                                       *)
ProFollowsStripe ==
  <>[](\A a \in accounts :
         AccountIsPro(a) <=> \E s \in Subs : live[s].buyer = a /\ live[s].version > 0
                                             /\ live[s].status = "active")
============================================================================

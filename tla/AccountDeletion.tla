--------------------------- MODULE AccountDeletion ---------------------------
(***************************************************************************)
(* Deleting an account (services/account_deletion.py), the list of deleted *)
(* accounts kept in Redis (core/deletion_list.py), the free trial counted  *)
(* per address (access/quota.py), and what a restore from a backup does to *)
(* the three.                                                              *)
(*                                                                         *)
(* Covered: the transaction that locks the account, counts its answers,    *)
(* writes the tombstone, lists the account and commits; the undo after a   *)
(* commit that failed; the same deletion asked for by the owner and by the *)
(* operator, several at once; the loop that deletes a restored account     *)
(* again, on several machines; questions answered and payment webhooks     *)
(* received meanwhile; replies of Redis and of the database that are lost; *)
(* a process that dies; a restore while all of this runs.                  *)
(*                                                                         *)
(* One address is modelled, so the database holds at most one account.     *)
(* Not covered: accounts without an address (they have no trial and no     *)
(* tombstone), a deployment without Redis (it has no list), answers of the *)
(* Pro tier, and the owner's proof of the inbox.                           *)
(***************************************************************************)
EXTENDS Naturals, FiniteSets

CONSTANTS
  Accounts,     \* account ids, never reused
  None,         \* no account, no lock holder
  Owners,       \* POST /v1/auth/me/delete requests in progress
  Operators,    \* delete-account commands in progress
  Machines,     \* reapply_deletions runs in progress
  Askers,       \* questions in progress
  TrialAnswers, \* Settings.access_free_trial_answers
  MaxBackups    \* bound: backups kept at once

Deleters == Owners \cup Operators
Processes == Deleters \cup Machines \cup Askers

ASSUME ProcessesAssumption ==
  /\ IsFiniteSet(Askers)
  /\ Deleters \cap Machines = {}
  /\ Deleters \cap Askers = {}
  /\ Machines \cap Askers = {}
ASSUME NoneAssumption == None \notin Accounts \cup Processes
ASSUME BoundsAssumption == TrialAnswers \in Nat \ {0} /\ MaxBackups \in Nat

VARIABLES
  db,      \* what the database holds about the address
  backups, \* copies of it
  listed,  \* the sorted set deleted_accounts in Redis
  lock,    \* who holds the account's users row FOR UPDATE
  task,    \* what each process is doing
  seen,    \* the entries each machine read
  born,    \* account ids given out
  gone     \* history: accounts whose deletion was reported done

vars == <<db, backups, listed, lock, task, seen, born, gone>>

Database == [acct : Accounts \cup {None}, live : BOOLEAN, used : Nat, stone : Nat]

NoTask == [step |-> "idle", acct |-> None, counted |-> 0]

Steps == {"idle", "asked", "planned", "recorded", "undoing", "unlisting",
          "read", "present", "asking", "stored"}

----------------------------------------------------------------------------
(* Helpers.                                                                *)

Exists(i) == i # None /\ db.acct = i

\* A session, API key or sign-in of the account is accepted.
Gate(i) == Exists(i) /\ i \notin listed

TrialUsed == db.used + db.stone

Released(p) == IF lock = p THEN None ELSE lock

At(p, step) == task[p].step = step

Becomes(p, s, i, n) ==
  task' = [task EXCEPT ![p] = [step |-> s, acct |-> i, counted |-> n]]

Goes(p, s) == Becomes(p, s, task[p].acct, task[p].counted)

Idle(p) == Becomes(p, "idle", None, 0)

\* A message is flushed and its session row locked until commit; the DELETE
\* cascades to that row.
AnswerHeld(i) == \E a \in Askers : At(a, "stored") /\ task[a].acct = i

\* Mutant: a second deletion replaces the tombstone.
RemovedReplacing(n) == [acct |-> None, live |-> FALSE, used |-> 0, stone |-> n]

\* Tombstone written, users row and everything under it deleted.
Removed(n) == [acct |-> None, live |-> FALSE, used |-> 0, stone |-> db.stone + n]

----------------------------------------------------------------------------
(* delete_account.                                                         *)

\* Mutant: the route does not resolve the session through the gate.
OwnerAsksUngated(p) ==
  /\ At(p, "idle") /\ Exists(db.acct)
  /\ Becomes(p, "asked", db.acct, 0)
  /\ UNCHANGED <<db, backups, listed, lock, seen, born, gone>>

OwnerAsks(p) ==
  /\ At(p, "idle") /\ Gate(db.acct)
  /\ Becomes(p, "asked", db.acct, 0)
  /\ UNCHANGED <<db, backups, listed, lock, seen, born, gone>>

\* The command finds the account by its address, and no gate is asked.
OperatorAsks(p) ==
  /\ At(p, "idle") /\ Exists(db.acct) /\ ~ db.live
  /\ Goes(p, "asked")
  /\ UNCHANGED <<db, backups, listed, lock, seen, born, gone>>

Found(p) == Exists(db.acct) /\ task[p].acct \in {None, db.acct}

\* Mutant: the subscription is looked at in the dry run only.
PlanUnchecked(p) ==
  /\ At(p, "asked") /\ lock = None /\ Found(p)
  /\ lock' = p
  /\ Becomes(p, "planned", db.acct, db.used)
  /\ UNCHANGED <<db, backups, listed, seen, born, gone>>

Plan(p) ==
  /\ At(p, "asked") /\ lock = None /\ Found(p) /\ ~ db.live
  /\ lock' = p
  /\ Becomes(p, "planned", db.acct, db.used)
  /\ UNCHANGED <<db, backups, listed, seen, born, gone>>

\* AccountNotFound, SubscriptionStillLive, or anything else that fails before
\* the list is written (a deadlock with an answer, a connection that is cut).
Refuse(p) ==
  /\ At(p, "asked") \/ At(p, "planned")
  /\ lock' = Released(p)
  /\ Idle(p)
  /\ UNCHANGED <<db, backups, listed, seen, born, gone>>

\* The rows are deleted, uncommitted, and the account is listed.
Record(p) ==
  /\ At(p, "planned") /\ lock = p /\ ~ AnswerHeld(db.acct)
  /\ listed' = listed \cup {task[p].acct}
  /\ Goes(p, "recorded")
  /\ UNCHANGED <<db, backups, lock, seen, born, gone>>

\* Redis reports a failure, whether or not the write landed.
RecordFails(p) ==
  /\ At(p, "planned") /\ lock = p /\ ~ AnswerHeld(db.acct)
  /\ listed' \in {listed, listed \cup {task[p].acct}}
  /\ lock' = None
  /\ Goes(p, "undoing")
  /\ UNCHANGED <<db, backups, seen, born, gone>>

Commit(p) ==
  /\ At(p, "recorded") /\ lock = p
  /\ db' = Removed(task[p].counted)
  /\ lock' = None
  /\ gone' = gone \cup {task[p].acct}
  /\ Idle(p)
  /\ UNCHANGED <<backups, listed, seen, born>>

\* The commit landed and only its reply was lost.
CommitUnheard(p) ==
  /\ At(p, "recorded") /\ lock = p
  /\ db' = Removed(task[p].counted)
  /\ lock' = None
  /\ Goes(p, "undoing")
  /\ UNCHANGED <<backups, listed, seen, born, gone>>

CommitFails(p) ==
  /\ At(p, "recorded")
  /\ lock' = Released(p)
  /\ Goes(p, "undoing")
  /\ UNCHANGED <<db, backups, listed, seen, born, gone>>

\* _unlist_if_still_there: the SELECT, then the ZREM.
StillThere(p) ==
  /\ At(p, "undoing") /\ Exists(task[p].acct)
  /\ Goes(p, "unlisting")
  /\ UNCHANGED <<db, backups, listed, lock, seen, born, gone>>

Forget(p) ==
  /\ At(p, "unlisting")
  /\ listed' = listed \ {task[p].acct}
  /\ Idle(p)
  /\ UNCHANGED <<db, backups, lock, seen, born, gone>>

\* The account is gone, or the SELECT or the ZREM failed: it stays listed.
KeepListed(p) ==
  /\ At(p, "undoing") \/ At(p, "unlisting")
  /\ Idle(p)
  /\ UNCHANGED <<db, backups, listed, lock, seen, born, gone>>

\* The process dies, and the database rolls its transaction back.
Crash(p) ==
  /\ ~ At(p, "idle")
  /\ lock' = Released(p)
  /\ Idle(p)
  /\ UNCHANGED <<db, backups, listed, seen, born, gone>>

AttemptStep(p) ==
  \/ Plan(p) \/ Refuse(p) \/ Record(p) \/ RecordFails(p)
  \/ Commit(p) \/ CommitUnheard(p) \/ CommitFails(p)
  \/ StillThere(p) \/ Forget(p) \/ KeepListed(p)

----------------------------------------------------------------------------
(* reapply_deletions.                                                      *)

\* Entries outlive every backup that holds the account, and a restored account
\* outlives no entry: KEEP is twice the time a backup is kept.
Restorable == {db.acct} \cup {b.acct : b \in backups}

ReadList(m) ==
  /\ At(m, "idle")
  /\ \E old \in SUBSET (listed \ Restorable) :
       /\ listed' = listed \ old
       /\ seen' = [seen EXCEPT ![m] = listed \ old]
  /\ Goes(m, "read")
  /\ UNCHANGED <<db, backups, lock, born, gone>>

FindPresent(m) ==
  /\ At(m, "read")
  /\ IF db.acct \in seen[m]
     THEN Becomes(m, "present", db.acct, 0)
     ELSE Idle(m)
  /\ seen' = [seen EXCEPT ![m] = {}]
  /\ UNCHANGED <<db, backups, listed, lock, born, gone>>

\* Mutant: the second deletion asks about the subscription again.
LockListedChecked(m) ==
  /\ At(m, "present") /\ lock = None /\ Exists(task[m].acct) /\ ~ db.live
  /\ lock' = m
  /\ Becomes(m, "planned", task[m].acct, db.used)
  /\ UNCHANGED <<db, backups, listed, seen, born, gone>>

LockListed(m) ==
  /\ At(m, "present") /\ lock = None /\ Exists(task[m].acct)
  /\ lock' = m
  /\ Becomes(m, "planned", task[m].acct, db.used)
  /\ UNCHANGED <<db, backups, listed, seen, born, gone>>

\* Whether or not the reply to the commit is heard, the run goes on.
DeleteAgain(m) ==
  /\ At(m, "planned") /\ lock = m /\ ~ AnswerHeld(db.acct)
  /\ db' = Removed(task[m].counted)
  /\ lock' = None
  /\ Idle(m)
  /\ UNCHANGED <<backups, listed, seen, born, gone>>

\* Another machine got there first, or a restore cut the transaction.
Skip(m) ==
  /\ \/ At(m, "present") /\ lock = None /\ ~ Exists(task[m].acct)
     \/ At(m, "planned") /\ lock # m
  /\ Idle(m)
  /\ UNCHANGED <<db, backups, listed, lock, seen, born, gone>>

\* Any other error, the startup timeout, a crash.
GiveUp(m) ==
  /\ ~ At(m, "idle")
  /\ lock' = Released(m)
  /\ seen' = [seen EXCEPT ![m] = {}]
  /\ Idle(m)
  /\ UNCHANGED <<db, backups, listed, born, gone>>

----------------------------------------------------------------------------
(* post_message, on the Free tier.                                         *)

\* Mutant: the account is locked for as long as the answer takes.
AdmitLocking(a) ==
  /\ At(a, "idle") /\ Gate(db.acct) /\ ~ db.live /\ lock = None
  /\ TrialUsed < TrialAnswers
  /\ lock' = a
  /\ Becomes(a, "asking", db.acct, 0)
  /\ UNCHANGED <<db, backups, listed, seen, born, gone>>

\* refuse_if_used_up, before the answer is produced.
Admit(a) ==
  /\ At(a, "idle") /\ Gate(db.acct) /\ ~ db.live
  /\ TrialUsed < TrialAnswers
  /\ Becomes(a, "asking", db.acct, 0)
  /\ UNCHANGED <<db, backups, listed, lock, seen, born, gone>>

\* The session row is locked, unless a deletion holds it.
StoreAnswer(a) ==
  /\ At(a, "asking") /\ Exists(task[a].acct)
  /\ ~ \E p \in Deleters : At(p, "recorded") /\ lock = p
  /\ Goes(a, "stored")
  /\ UNCHANGED <<db, backups, listed, lock, seen, born, gone>>

\* The usage row refers to the users row: it waits for a FOR UPDATE.
CommitAnswer(a) ==
  /\ At(a, "stored") /\ Exists(task[a].acct) /\ lock = None
  /\ db' = [db EXCEPT !.used = @ + 1]
  /\ Idle(a)
  /\ UNCHANGED <<backups, listed, lock, seen, born, gone>>

\* No counted answer, SessionGone, an error, a deadlock with a deletion.
Abandon(a) ==
  /\ At(a, "asking") \/ At(a, "stored")
  /\ Idle(a)
  /\ UNCHANGED <<db, backups, listed, lock, seen, born, gone>>

RequestStep(a) == StoreAnswer(a) \/ CommitAnswer(a) \/ Abandon(a)

----------------------------------------------------------------------------
(* The rest of the system.                                                 *)

\* register, when the address has no account; verifying it is part of the step.
SignUp(i) ==
  /\ db.acct = None /\ i \notin born
  /\ db' = [db EXCEPT !.acct = i]
  /\ born' = born \cup {i}
  /\ UNCHANGED <<backups, listed, lock, task, seen, gone>>

\* A webhook locks the users row and stores that a subscription began or ended.
Webhook ==
  /\ Exists(db.acct) /\ lock = None
  /\ db' = [db EXCEPT !.live = ~ @]
  /\ UNCHANGED <<backups, listed, lock, task, seen, born, gone>>

Backup ==
  /\ Cardinality(backups \cup {db}) <= MaxBackups
  /\ backups' = backups \cup {db}
  /\ UNCHANGED <<db, listed, lock, task, seen, born, gone>>

Prune(b) ==
  /\ backups' = backups \ {b}
  /\ UNCHANGED <<db, listed, lock, task, seen, born, gone>>

\* Every open transaction is cut: the questions fail, and a deletion finds out
\* at its next statement.
Restore(b) ==
  /\ db' = b
  /\ lock' = None
  /\ task' = [p \in Processes |-> IF p \in Askers THEN NoTask ELSE task[p]]
  /\ UNCHANGED <<backups, listed, seen, born, gone>>

Init ==
  /\ db = [acct |-> None, live |-> FALSE, used |-> 0, stone |-> 0]
  /\ backups = {}
  /\ listed = {} /\ born = {} /\ gone = {}
  /\ lock = None
  /\ task = [p \in Processes |-> NoTask]
  /\ seen = [m \in Machines |-> {}]

Next ==
  \/ \E p \in Owners : OwnerAsks(p)
  \/ \E p \in Operators : OperatorAsks(p)
  \/ \E p \in Deleters : AttemptStep(p) \/ Crash(p)
  \/ \E m \in Machines :
       \/ ReadList(m) \/ FindPresent(m) \/ LockListed(m) \/ DeleteAgain(m)
       \/ Skip(m) \/ GiveUp(m)
  \/ \E a \in Askers : Admit(a) \/ RequestStep(a)
  \/ \E i \in Accounts : SignUp(i)
  \/ Webhook \/ Backup
  \/ \E b \in backups : Prune(b) \/ Restore(b)

Spec == Init /\ [][Next]_vars

\* Attempts and requests do not stand still: a wait ends, if only with an error
\* of the deadlock detector or a timeout. keep_reapplying reads the list again
\* and again, and does not fail every time at the same statement.
Fairness ==
  /\ \A p \in Deleters : WF_vars(AttemptStep(p))
  /\ \A a \in Askers : WF_vars(RequestStep(a))
  /\ \A m \in Machines :
       /\ WF_vars(ReadList(m)) /\ WF_vars(Skip(m)) /\ SF_vars(FindPresent(m))
       /\ SF_vars(LockListed(m)) /\ SF_vars(DeleteAgain(m))

FairSpec == Spec /\ Fairness

----------------------------------------------------------------------------
(* Properties.                                                             *)

\* The answers the database knows the address to have used.
Answers == db.used + db.stone

\* Types; only deletions ever lock the users row beyond one statement.
TypeOK ==
  /\ db \in Database
  /\ backups \in SUBSET Database
  /\ listed \subseteq Accounts /\ born \subseteq Accounts /\ gone \subseteq Accounts
  /\ task \in [Processes -> [step : Steps, acct : Accounts \cup {None}, counted : Nat]]
  /\ seen \in [Machines -> SUBSET Accounts]
  /\ lock \in Deleters \cup Machines \cup {None}

\* A deletion that was reported done stays done: if a restore brings the
\* account back, the gate refuses it (deletion_list.py:9-19).
DeletedStaysUnusable == \A i \in gone : Exists(i) => i \in listed

\* A deletion commits what it found under its lock: no subscription that could
\* bill is deleted with the account (account_deletion.py:16-20).
NobodyStaysBilled == [][\A p \in Deleters : Commit(p) \/ CommitUnheard(p) => ~ db.live]_vars

\* Answers used count against the address whatever is deleted, answered or
\* signed up at the same time: only a restore forgets any (access/quota.py:9-12).
TrialIsNotRenewed ==
  [][Answers' >= Answers \/ \E b \in backups : Restore(b)]_vars

\* Questions in flight can pass the limit of the trial together, but no further
\* than one each (access/quota.py:21-24), deleted accounts included.
OvershootIsBounded == Answers < TrialAnswers + Cardinality(Askers)

\* A deleted account that a restore brought back is deleted again, whatever its
\* restored subscription says (account_deletion.py:291-301).
RestoredIsDeletedAgain ==
  \A i \in Accounts : (Exists(i) /\ i \in gone) ~> ~ Exists(i)
=============================================================================

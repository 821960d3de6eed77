--------------------------- MODULE AccountProofs ---------------------------
(***************************************************************************)
(* The theorems about accounts, for any number of users, browsers,         *)
(* requests, questions and backups.  AccountDeletion: nobody stays billed, *)
(* a restored account is deleted again.  SignIn: a link signs in once,     *)
(* what a page reports as linked is linked, a registered account keeps its *)
(* history. Allowance: how far questions asked at once can pass a limit.   *)
(***************************************************************************)
EXTENDS AccountDeletion, SignIn, Allowance, FiniteSetTheorems, TLAPS

----------------------------------------------------------------------------
(* AccountDeletion.                                                        *)

Lockers == Deleters \cup Machines

\* Whoever holds the users row has read what is still there: the account, its
\* answers, and, for a first deletion, that no subscription can bill.
LockInv ==
  \A p \in Lockers : lock = p =>
    /\ task[p].step \in {"planned", "recorded"}
    /\ task[p].acct = db.acct
    /\ db.acct \in Accounts
    /\ task[p].counted = db.used
    /\ p \in Deleters => ~ db.live

IInv == TypeOK /\ LockInv

Tasks == [Processes -> [step : Steps, acct : Accounts \cup {None}, counted : Nat]]

----------------------------------------------------------------------------
(* Types and the lock.                                                     *)

\* A step of one process changes its own task to what it says.
LEMMA BecomesType ==
  ASSUME TypeOK, NEW p \in Processes, NEW s \in Steps, NEW i \in Accounts \cup {None},
         NEW n \in Nat, Becomes(p, s, i, n)
  PROVE  /\ task' \in Tasks
         /\ task'[p].step = s /\ task'[p].acct = i /\ task'[p].counted = n
         /\ \A q \in Processes \ {p} : task'[q] = task[q]
<1>1. task \in Tasks
  BY DEF TypeOK, Tasks
<1>. DEFINE r == [step |-> s, acct |-> i, counted |-> n]
<1>2. r \in [step : Steps, acct : Accounts \cup {None}, counted : Nat]
  OBVIOUS
<1>3. r.step = s /\ r.acct = i /\ r.counted = n
  OBVIOUS
<1>4. task' = [task EXCEPT ![p] = r]
  BY DEF Becomes
<1>. HIDE DEF r
<1>. QED  BY <1>1, <1>2, <1>3, <1>4 DEF Tasks

\* A process that only moves on keeps what it noted.
LEMMA GoesType ==
  ASSUME TypeOK, NEW p \in Processes, NEW s \in Steps, Goes(p, s)
  PROVE  /\ task' \in Tasks
         /\ task'[p].step = s /\ task'[p].acct = task[p].acct
         /\ task'[p].counted = task[p].counted
         /\ \A q \in Processes \ {p} : task'[q] = task[q]
<1>1. task[p].acct \in Accounts \cup {None} /\ task[p].counted \in Nat
  BY DEF TypeOK
<1>. HIDE DEF TypeOK
<1>. QED  BY <1>1, BecomesType DEF Goes

\* A process that ends notes nothing.
LEMMA IdleType ==
  ASSUME TypeOK, NEW p \in Processes, Idle(p)
  PROVE  /\ task' \in Tasks
         /\ task'[p].step = "idle"
         /\ \A q \in Processes \ {p} : task'[q] = task[q]
<1>1. "idle" \in Steps
  BY DEF Steps
<1>. QED  BY <1>1, BecomesType DEF Idle

\* The database after a deletion.
LEMMA RemovedType ==
  ASSUME TypeOK, NEW n \in Nat
  PROVE  Removed(n) \in Database
  BY DEF TypeOK, Removed, Database


\* With the row free there is nothing to know.
LEMMA LockFree ==
  ASSUME lock' = None
  PROVE  LockInv'
  BY NoneAssumption DEF LockInv, Lockers, Processes

\* A step of a process that does not hold the row, or lets go of it, and leaves
\* the database alone.
LEMMA LockKept ==
  ASSUME LockInv, NEW p \in Processes, db' = db, lock' \in {lock, None}, lock' # p,
         \A q \in Processes \ {p} : task'[q] = task[q]
  PROVE  LockInv'
<1>. SUFFICES ASSUME NEW q \in Lockers, lock' = q
              PROVE  /\ task'[q].step \in {"planned", "recorded"}
                     /\ task'[q].acct = db'.acct
                     /\ db'.acct \in Accounts
                     /\ task'[q].counted = db'.used
                     /\ q \in Deleters => ~ db'.live
  BY DEF LockInv
<1>1. q # None /\ q \in Processes \ {p} /\ lock = q
  BY NoneAssumption DEF Lockers, Processes
<1>2. task'[q] = task[q]
  BY <1>1
<1>. QED  BY <1>1, <1>2 DEF LockInv

\* A process that is elsewhere does not hold the row.
LEMMA NotHolding ==
  ASSUME LockInv, NEW p \in Processes, ~ At(p, "planned"), ~ At(p, "recorded"),
         lock \in Lockers \cup {None}
  PROVE  lock # p
  BY NoneAssumption DEF LockInv, At, Lockers, Processes

\* The initial state.
LEMMA InitInv == Init => IInv
<1>. SUFFICES ASSUME Init PROVE IInv
  OBVIOUS
<1>1. NoTask \in [step : Steps, acct : Accounts \cup {None}, counted : Nat]
  BY DEF NoTask, Steps
<1>2. task \in [Processes -> [step : Steps, acct : Accounts \cup {None}, counted : Nat]]
  BY <1>1 DEF Init
<1>3. db \in Database
  BY DEF Init, Database
<1>4. TypeOK
  BY <1>2, <1>3 DEF Init, TypeOK
<1>5. LockInv
  BY NoneAssumption DEF Init, LockInv, Lockers, Processes
<1>. QED  BY <1>4, <1>5 DEF IInv

----------------------------------------------------------------------------
(* Steps of a deletion.                                                    *)

\* An owner's or operator's attempt keeps the invariant at every step.
LEMMA DeleterStep ==
  ASSUME IInv, NEW p \in Deleters,
         \/ OwnerAsks(p) \/ OperatorAsks(p) \/ AttemptStep(p) \/ Crash(p)
  PROVE  IInv'
<1>. USE DEF IInv
<1>p. p \in Processes /\ p \in Lockers /\ p # None
  BY NoneAssumption DEF Processes, Lockers
<1>t. lock \in Lockers \cup {None}
  BY DEF TypeOK, Lockers
<1>s. {"asked", "planned", "recorded", "undoing", "unlisting", "idle"} \subseteq Steps
  BY DEF Steps
<1>1. CASE OwnerAsks(p)
  <2>1. db.acct \in Accounts /\ lock # p
    BY <1>1, <1>p, <1>t, NotHolding DEF OwnerAsks, Gate, Exists, TypeOK, Database, At
  <2>2. task' \in Tasks /\ \A q \in Processes \ {p} : task'[q] = task[q]
    BY <1>1, <1>p, <1>s, <2>1, BecomesType DEF OwnerAsks
  <2>3. TypeOK'
    BY <1>1, <2>2 DEF OwnerAsks, TypeOK, Tasks
  <2>4. LockInv'
    BY <1>1, <1>p, <2>1, <2>2, LockKept DEF OwnerAsks
  <2>. QED  BY <2>3, <2>4
<1>2. CASE OperatorAsks(p)
  <2>1. lock # p
    BY <1>2, <1>p, <1>t, NotHolding DEF OperatorAsks, At
  <2>2. task' \in Tasks /\ \A q \in Processes \ {p} : task'[q] = task[q]
    BY <1>2, <1>p, <1>s, GoesType DEF OperatorAsks
  <2>3. TypeOK'
    BY <1>2, <2>2 DEF OperatorAsks, TypeOK, Tasks
  <2>4. LockInv'
    BY <1>2, <1>p, <2>1, <2>2, LockKept DEF OperatorAsks
  <2>. QED  BY <2>3, <2>4
<1>3. CASE Plan(p)
  <2>1. db.acct \in Accounts /\ db.used \in Nat
    BY <1>3 DEF Plan, Found, Exists, TypeOK, Database
  <2>2. /\ task' \in Tasks
        /\ task'[p].step = "planned" /\ task'[p].acct = db.acct /\ task'[p].counted = db.used
    BY <1>3, <1>p, <1>s, <2>1, BecomesType DEF Plan
  <2>3. TypeOK'
    BY <1>3, <2>2 DEF Plan, TypeOK, Tasks
  <2>4. LockInv'
    BY <1>3, <2>1, <2>2 DEF Plan, LockInv
  <2>. QED  BY <2>3, <2>4
<1>4. CASE Refuse(p)
  <2>1. task' \in Tasks /\ \A q \in Processes \ {p} : task'[q] = task[q]
    BY <1>4, <1>p, IdleType DEF Refuse
  <2>2. lock' \in {lock, None} /\ lock' # p
    BY <1>4, <1>p DEF Refuse, Released
  <2>3. TypeOK'
    BY <1>4, <2>1, <2>2 DEF Refuse, TypeOK, Tasks
  <2>4. LockInv'
    BY <1>4, <1>p, <2>1, <2>2, LockKept DEF Refuse
  <2>. QED  BY <2>3, <2>4
<1>5. CASE Record(p)
  <2>1. /\ task[p].acct = db.acct /\ db.acct \in Accounts
        /\ task[p].counted = db.used /\ ~ db.live
    BY <1>5, <1>p DEF Record, LockInv
  <2>2. /\ task' \in Tasks
        /\ task'[p].step = "recorded" /\ task'[p].acct = task[p].acct
        /\ task'[p].counted = task[p].counted
    BY <1>5, <1>p, <1>s, GoesType DEF Record
  <2>3. TypeOK'
    BY <1>5, <2>1, <2>2 DEF Record, TypeOK, Tasks
  <2>4. LockInv'
    BY <1>5, <2>1, <2>2 DEF Record, LockInv
  <2>. QED  BY <2>3, <2>4
<1>6. CASE RecordFails(p)
  <2>1. task[p].acct \in Accounts
    BY <1>6, <1>p DEF RecordFails, LockInv
  <2>2. task' \in Tasks
    BY <1>6, <1>p, <1>s, GoesType DEF RecordFails
  <2>3. listed' \subseteq Accounts
    BY <1>6, <2>1 DEF RecordFails, TypeOK
  <2>4. TypeOK'
    BY <1>6, <2>2, <2>3 DEF RecordFails, TypeOK, Tasks
  <2>5. LockInv'
    BY <1>6, LockFree DEF RecordFails
  <2>. QED  BY <2>4, <2>5
<1>7. CASE Commit(p)
  <2>1. task[p].acct \in Accounts /\ task[p].counted \in Nat
    BY <1>7, <1>p DEF Commit, LockInv, TypeOK
  <2>2. task' \in Tasks /\ db' \in Database
    BY <1>7, <1>p, <2>1, IdleType, RemovedType DEF Commit
  <2>3. TypeOK'
    BY <1>7, <2>1, <2>2 DEF Commit, TypeOK, Tasks
  <2>4. LockInv'
    BY <1>7, LockFree DEF Commit
  <2>. QED  BY <2>3, <2>4
<1>8. CASE CommitUnheard(p)
  <2>1. task[p].counted \in Nat
    BY <1>p DEF TypeOK
  <2>2. task' \in Tasks /\ db' \in Database
    BY <1>8, <1>p, <1>s, <2>1, GoesType, RemovedType DEF CommitUnheard
  <2>3. TypeOK'
    BY <1>8, <2>2 DEF CommitUnheard, TypeOK, Tasks
  <2>4. LockInv'
    BY <1>8, LockFree DEF CommitUnheard
  <2>. QED  BY <2>3, <2>4
<1>9. CASE CommitFails(p)
  <2>1. task' \in Tasks /\ \A q \in Processes \ {p} : task'[q] = task[q]
    BY <1>9, <1>p, <1>s, GoesType DEF CommitFails
  <2>2. lock' \in {lock, None} /\ lock' # p
    BY <1>9, <1>p DEF CommitFails, Released
  <2>3. TypeOK'
    BY <1>9, <2>1, <2>2 DEF CommitFails, TypeOK, Tasks
  <2>4. LockInv'
    BY <1>9, <1>p, <2>1, <2>2, LockKept DEF CommitFails
  <2>. QED  BY <2>3, <2>4
<1>10. CASE StillThere(p)
  <2>1. lock # p
    BY <1>10, <1>p, <1>t, NotHolding DEF StillThere, At
  <2>2. task' \in Tasks /\ \A q \in Processes \ {p} : task'[q] = task[q]
    BY <1>10, <1>p, <1>s, GoesType DEF StillThere
  <2>3. TypeOK'
    BY <1>10, <2>2 DEF StillThere, TypeOK, Tasks
  <2>4. LockInv'
    BY <1>10, <1>p, <2>1, <2>2, LockKept DEF StillThere
  <2>. QED  BY <2>3, <2>4
<1>11. CASE Forget(p)
  <2>1. lock # p
    BY <1>11, <1>p, <1>t, NotHolding DEF Forget, At
  <2>2. task' \in Tasks /\ \A q \in Processes \ {p} : task'[q] = task[q]
    BY <1>11, <1>p, IdleType DEF Forget
  <2>3. TypeOK'
    BY <1>11, <2>2 DEF Forget, TypeOK, Tasks
  <2>4. LockInv'
    BY <1>11, <1>p, <2>1, <2>2, LockKept DEF Forget
  <2>. QED  BY <2>3, <2>4
<1>12. CASE KeepListed(p)
  <2>1. lock # p
    BY <1>12, <1>p, <1>t, NotHolding DEF KeepListed, At
  <2>2. task' \in Tasks /\ \A q \in Processes \ {p} : task'[q] = task[q]
    BY <1>12, <1>p, IdleType DEF KeepListed
  <2>3. TypeOK'
    BY <1>12, <2>2 DEF KeepListed, TypeOK, Tasks
  <2>4. LockInv'
    BY <1>12, <1>p, <2>1, <2>2, LockKept DEF KeepListed
  <2>. QED  BY <2>3, <2>4
<1>13. CASE Crash(p)
  <2>1. task' \in Tasks /\ \A q \in Processes \ {p} : task'[q] = task[q]
    BY <1>13, <1>p, IdleType DEF Crash
  <2>2. lock' \in {lock, None} /\ lock' # p
    BY <1>13, <1>p DEF Crash, Released
  <2>3. TypeOK'
    BY <1>13, <2>1, <2>2 DEF Crash, TypeOK, Tasks
  <2>4. LockInv'
    BY <1>13, <1>p, <2>1, <2>2, LockKept DEF Crash
  <2>. QED  BY <2>3, <2>4
<1>. QED
  BY <1>1, <1>2, <1>3, <1>4, <1>5, <1>6, <1>7, <1>8, <1>9, <1>10, <1>11, <1>12, <1>13
  DEF AttemptStep

----------------------------------------------------------------------------
(* Steps of a reapply run, of a question, and of the environment.          *)

\* A machine that applies the list again keeps the invariant at every step.
LEMMA MachineStep ==
  ASSUME IInv, NEW m \in Machines,
         \/ ReadList(m) \/ FindPresent(m) \/ LockListed(m)
         \/ DeleteAgain(m) \/ Skip(m) \/ GiveUp(m)
  PROVE  IInv'
<1>. USE DEF IInv
<1>m. m \in Processes /\ m \in Lockers /\ m # None /\ m \notin Deleters
  BY NoneAssumption, ProcessesAssumption DEF Processes, Lockers
<1>t. lock \in Lockers \cup {None}
  BY DEF TypeOK, Lockers
<1>s. {"read", "present", "planned", "idle"} \subseteq Steps
  BY DEF Steps
<1>1. CASE ReadList(m)
  <2>1. lock # m
    BY <1>1, <1>m, <1>t, NotHolding DEF ReadList, At
  <2>2. task' \in Tasks /\ \A q \in Processes \ {m} : task'[q] = task[q]
    BY <1>1, <1>m, <1>s, GoesType DEF ReadList
  <2>3. listed' \subseteq Accounts /\ seen' \in [Machines -> SUBSET Accounts]
    BY <1>1 DEF ReadList, TypeOK
  <2>4. TypeOK'
    BY <1>1, <2>2, <2>3 DEF ReadList, TypeOK, Tasks
  <2>5. LockInv'
    BY <1>1, <1>m, <2>1, <2>2, LockKept DEF ReadList
  <2>. QED  BY <2>4, <2>5
<1>2. CASE FindPresent(m)
  <2>1. lock # m
    BY <1>2, <1>m, <1>t, NotHolding DEF FindPresent, At
  <2>2. task' \in Tasks /\ \A q \in Processes \ {m} : task'[q] = task[q]
    <3>1. CASE db.acct \in seen[m]
      <4>1. db.acct \in Accounts \cup {None}
        BY DEF TypeOK, Database
      <4>. QED  BY <1>2, <3>1, <4>1, <1>m, <1>s, BecomesType DEF FindPresent
    <3>2. CASE db.acct \notin seen[m]
      BY <1>2, <3>2, <1>m, IdleType DEF FindPresent
    <3>. QED  BY <3>1, <3>2
  <2>3. TypeOK'
    BY <1>2, <2>2 DEF FindPresent, TypeOK, Tasks
  <2>4. LockInv'
    BY <1>2, <1>m, <2>1, <2>2, LockKept DEF FindPresent
  <2>. QED  BY <2>3, <2>4
<1>3. CASE LockListed(m)
  <2>1. db.acct \in Accounts /\ db.used \in Nat /\ task[m].acct = db.acct
    BY <1>3 DEF LockListed, Exists, TypeOK, Database
  <2>2. /\ task' \in Tasks
        /\ task'[m].step = "planned" /\ task'[m].acct = db.acct /\ task'[m].counted = db.used
    BY <1>3, <1>m, <1>s, <2>1, BecomesType DEF LockListed
  <2>3. TypeOK'
    BY <1>3, <2>2 DEF LockListed, TypeOK, Tasks
  <2>4. LockInv'
    BY <1>3, <1>m, <2>1, <2>2 DEF LockListed, LockInv
  <2>. QED  BY <2>3, <2>4
<1>4. CASE DeleteAgain(m)
  <2>1. task[m].counted \in Nat
    BY <1>m DEF TypeOK
  <2>2. task' \in Tasks /\ db' \in Database
    BY <1>4, <1>m, <2>1, IdleType, RemovedType DEF DeleteAgain
  <2>3. TypeOK'
    BY <1>4, <2>2 DEF DeleteAgain, TypeOK, Tasks
  <2>4. LockInv'
    BY <1>4, LockFree DEF DeleteAgain
  <2>. QED  BY <2>3, <2>4
<1>5. CASE Skip(m)
  <2>1. lock # m
    BY <1>5, <1>m DEF Skip
  <2>2. task' \in Tasks /\ \A q \in Processes \ {m} : task'[q] = task[q]
    BY <1>5, <1>m, IdleType DEF Skip
  <2>3. TypeOK'
    BY <1>5, <2>2 DEF Skip, TypeOK, Tasks
  <2>4. LockInv'
    BY <1>5, <1>m, <2>1, <2>2, LockKept DEF Skip
  <2>. QED  BY <2>3, <2>4
<1>6. CASE GiveUp(m)
  <2>1. task' \in Tasks /\ \A q \in Processes \ {m} : task'[q] = task[q]
    BY <1>6, <1>m, IdleType DEF GiveUp
  <2>2. lock' \in {lock, None} /\ lock' # m
    BY <1>6, <1>m DEF GiveUp, Released
  <2>3. TypeOK'
    BY <1>6, <2>1, <2>2 DEF GiveUp, TypeOK, Tasks
  <2>4. LockInv'
    BY <1>6, <1>m, <2>1, <2>2, LockKept DEF GiveUp
  <2>. QED  BY <2>3, <2>4
<1>. QED  BY <1>1, <1>2, <1>3, <1>4, <1>5, <1>6

\* A question never holds the row, and adds its answer only when nobody does.
LEMMA AskerStep ==
  ASSUME IInv, NEW a \in Askers, Admit(a) \/ RequestStep(a)
  PROVE  IInv'
<1>. USE DEF IInv
<1>a. a \in Processes /\ a \notin Lockers /\ a # None
  BY NoneAssumption, ProcessesAssumption DEF Processes, Lockers
<1>t. lock \in Lockers \cup {None} /\ lock # a
  BY <1>a DEF TypeOK, Lockers
<1>s. {"asking", "stored", "idle"} \subseteq Steps
  BY DEF Steps
<1>1. CASE Admit(a)
  <2>1. db.acct \in Accounts
    BY <1>1 DEF Admit, Gate, Exists, TypeOK, Database
  <2>2. task' \in Tasks /\ \A q \in Processes \ {a} : task'[q] = task[q]
    BY <1>1, <1>a, <1>s, <2>1, BecomesType DEF Admit
  <2>3. TypeOK'
    BY <1>1, <2>2 DEF Admit, TypeOK, Tasks
  <2>4. LockInv'
    BY <1>1, <1>a, <1>t, <2>2, LockKept DEF Admit
  <2>. QED  BY <2>3, <2>4
<1>2. CASE StoreAnswer(a)
  <2>1. task' \in Tasks /\ \A q \in Processes \ {a} : task'[q] = task[q]
    BY <1>2, <1>a, <1>s, GoesType DEF StoreAnswer
  <2>2. TypeOK'
    BY <1>2, <2>1 DEF StoreAnswer, TypeOK, Tasks
  <2>3. LockInv'
    BY <1>2, <1>a, <1>t, <2>1, LockKept DEF StoreAnswer
  <2>. QED  BY <2>2, <2>3
<1>3. CASE CommitAnswer(a)
  <2>1. task' \in Tasks
    BY <1>3, <1>a, IdleType DEF CommitAnswer
  <2>2. db' \in Database
    BY <1>3 DEF CommitAnswer, TypeOK, Database
  <2>3. TypeOK'
    BY <1>3, <2>1, <2>2 DEF CommitAnswer, TypeOK, Tasks
  <2>4. LockInv'
    BY <1>3, LockFree DEF CommitAnswer
  <2>. QED  BY <2>3, <2>4
<1>4. CASE Abandon(a)
  <2>1. task' \in Tasks /\ \A q \in Processes \ {a} : task'[q] = task[q]
    BY <1>4, <1>a, IdleType DEF Abandon
  <2>2. TypeOK'
    BY <1>4, <2>1 DEF Abandon, TypeOK, Tasks
  <2>3. LockInv'
    BY <1>4, <1>a, <1>t, <2>1, LockKept DEF Abandon
  <2>. QED  BY <2>2, <2>3
<1>. QED  BY <1>1, <1>2, <1>3, <1>4 DEF RequestStep

\* Sign-ups and webhooks change the database only when nobody holds the row; a
\* restore takes the row from whoever does.
LEMMA OtherStep ==
  ASSUME IInv,
         \/ \E i \in Accounts : SignUp(i)
         \/ Webhook \/ Backup
         \/ \E b \in backups : Prune(b) \/ Restore(b)
  PROVE  IInv'
<1>. USE DEF IInv
<1>1. CASE \E i \in Accounts : SignUp(i)
  <2>. PICK i \in Accounts : SignUp(i)
    BY <1>1
  <2>1. lock = None
    BY NoneAssumption DEF SignUp, LockInv, TypeOK, Lockers
  <2>2. db' \in Database
    BY DEF SignUp, TypeOK, Database
  <2>3. TypeOK'
    BY <2>2 DEF SignUp, TypeOK
  <2>4. LockInv'
    BY <2>1, LockFree DEF SignUp
  <2>. QED  BY <2>3, <2>4
<1>2. CASE Webhook
  <2>1. db' \in Database
    BY <1>2 DEF Webhook, TypeOK, Database
  <2>2. TypeOK'
    BY <1>2, <2>1 DEF Webhook, TypeOK
  <2>3. LockInv'
    BY <1>2, LockFree DEF Webhook
  <2>. QED  BY <2>2, <2>3
<1>3. CASE Backup
  BY <1>3 DEF Backup, TypeOK, LockInv
<1>4. CASE \E b \in backups : Prune(b)
  BY <1>4 DEF Prune, TypeOK, LockInv
<1>5. CASE \E b \in backups : Restore(b)
  <2>. PICK b \in backups : Restore(b)
    BY <1>5
  <2>1. NoTask \in [step : Steps, acct : Accounts \cup {None}, counted : Nat]
    BY DEF NoTask, Steps
  <2>2. task' \in Tasks
    BY <2>1 DEF Restore, TypeOK, Tasks
  <2>3. TypeOK'
    BY <2>2 DEF Restore, TypeOK, Tasks
  <2>4. LockInv'
    BY LockFree DEF Restore
  <2>. QED  BY <2>3, <2>4
<1>. QED  BY <1>1, <1>2, <1>3, <1>4, <1>5

\* The invariant is inductive.
LEMMA InvStep == IInv /\ [Next]_vars => IInv'
<1>1. CASE IInv /\ UNCHANGED vars
  BY <1>1 DEF IInv, TypeOK, LockInv, vars
<1>2. CASE IInv /\ Next
  BY <1>2, DeleterStep, MachineStep, AskerStep, OtherStep DEF Next, Deleters
<1>. QED  BY <1>1, <1>2

\* Every reachable state has the types of TypeOK, and the holder of the users
\* row knows what is there.
THEOREM RowIsKnown == Spec => []IInv
  BY InitInv, InvStep, PTL DEF Spec

\* Types, for every value of the constants.
THEOREM TypeCorrect == Spec => []TypeOK
<1>1. IInv => TypeOK
  BY DEF IInv
<1>. QED  BY <1>1, RowIsKnown, PTL

----------------------------------------------------------------------------
(* What a deletion commits.                                                *)

\* An account is deleted, the first time, only while no subscription of it can
\* bill: the check is made under the lock that the commit releases.
THEOREM NoLiveSubscriptionDeleted == Spec => NobodyStaysBilled
<1>1. ASSUME IInv, NEW p \in Deleters, Commit(p) \/ CommitUnheard(p)
      PROVE  ~ db.live
  BY <1>1 DEF IInv, LockInv, Lockers, Commit, CommitUnheard
<1>2. IInv => [\A p \in Deleters : Commit(p) \/ CommitUnheard(p) => ~ db.live]_vars
  BY <1>1
<1>. QED  BY <1>2, RowIsKnown, PTL DEF NobodyStaysBilled

\* A deletion moves the answers from the account to the tombstone.
LEMMA RemovedKeepsAnswers ==
  ASSUME TypeOK, db' = Removed(db.used)
  PROVE  Answers' = Answers
  BY DEF TypeOK, Database, Removed, Answers

\* The answers of the address change by one when an answer is counted, and by a
\* restore.
LEMMA AnswersStep ==
  ASSUME IInv, [Next]_vars
  PROVE  \/ Answers' = Answers
         \/ Answers' = Answers + 1 /\ \E a \in Askers : CommitAnswer(a)
         \/ \E b \in backups : Restore(b)
<1>. USE DEF IInv
<1>1. db.used \in Nat /\ db.stone \in Nat
  BY DEF TypeOK, Database
<1>3. CASE db' = db
  BY <1>3 DEF Answers
<1>4. CASE \E p \in Deleters : Commit(p) \/ CommitUnheard(p)
  <2>. PICK p \in Deleters : Commit(p) \/ CommitUnheard(p)
    BY <1>4
  <2>1. task[p].counted = db.used
    BY DEF LockInv, Lockers, Commit, CommitUnheard
  <2>2. db' = Removed(db.used)
    BY <2>1 DEF Commit, CommitUnheard
  <2>. QED  BY <2>2, RemovedKeepsAnswers
<1>5. CASE \E m \in Machines : DeleteAgain(m)
  <2>. PICK m \in Machines : DeleteAgain(m)
    BY <1>5
  <2>1. task[m].counted = db.used
    BY DEF LockInv, Lockers, DeleteAgain
  <2>2. db' = Removed(db.used)
    BY <2>1 DEF DeleteAgain
  <2>. QED  BY <2>2, RemovedKeepsAnswers
<1>6. CASE \E a \in Askers : CommitAnswer(a)
  <2>1. db'.used = db.used + 1 /\ db'.stone = db.stone
    BY <1>6 DEF CommitAnswer, TypeOK, Database
  <2>. QED  BY <1>1, <1>6, <2>1 DEF Answers
<1>7. CASE (\E i \in Accounts : SignUp(i)) \/ Webhook
  <2>1. db'.used = db.used /\ db'.stone = db.stone
    BY <1>7 DEF SignUp, Webhook, TypeOK, Database
  <2>. QED  BY <2>1 DEF Answers
<1>8. CASE \E b \in backups : Restore(b)
  BY <1>8
<1>. QED
  BY <1>3, <1>4, <1>5, <1>6, <1>7, <1>8
  DEF Next, vars, OwnerAsks, OperatorAsks, AttemptStep, Plan, Refuse, Record, RecordFails,
      CommitFails, StillThere, Forget, KeepListed, Crash, ReadList, FindPresent, LockListed,
      Skip, GiveUp, Admit, RequestStep, StoreAnswer, Abandon, Backup, Prune

\* Answers used count against the address for good, whatever is deleted,
\* deleted again, answered or signed up in between.
THEOREM TrialStaysCounted == Spec => TrialIsNotRenewed
<1>1. IInv => Answers \in Nat
  BY DEF IInv, TypeOK, Database, Answers
<1>2. ASSUME IInv, [Next]_vars
      PROVE  Answers' >= Answers \/ \E b \in backups : Restore(b)
  <2>1. Answers \in Nat
    BY <1>1, <1>2
  <2>2. Answers + 1 >= Answers /\ Answers >= Answers
    BY <2>1
  <2>. QED  BY <1>2, <2>2, AnswersStep
<1>3. IInv /\ [Next]_vars => [Answers' >= Answers \/ \E b \in backups : Restore(b)]_vars
  BY <1>2
<1>. QED  BY <1>3, RowIsKnown, PTL DEF Spec, TrialIsNotRenewed

----------------------------------------------------------------------------
(* The limit of the trial.                                                 *)

\* Questions that were admitted and are not counted yet.
Storing == {a \in Askers : At(a, "asking") \/ At(a, "stored")}

\* Each question in flight may still add one answer, here and in any backup.
BoundInv ==
  /\ Answers + Cardinality(Storing) < TrialAnswers + Cardinality(Askers)
  /\ \A b \in backups : b.used + b.stone < TrialAnswers + Cardinality(Askers)

\* A set of questions is no larger than all of them, nor than one it is part of.
LEMMA StoringSize ==
  /\ Cardinality(Askers) \in Nat
  /\ Cardinality(Storing) \in Nat /\ Cardinality(Storing) <= Cardinality(Askers)
  /\ \A S \in SUBSET Storing : Cardinality(S) \in Nat /\ Cardinality(S) <= Cardinality(Storing)
<1>1. Storing \in SUBSET Askers
  BY DEF Storing
<1>2. IsFiniteSet(Askers) /\ Cardinality(Askers) \in Nat
  BY ProcessesAssumption, FS_CardinalityType
<1>3. IsFiniteSet(Storing) /\ Cardinality(Storing) <= Cardinality(Askers)
  BY <1>1, <1>2, FS_Subset
<1>4. Cardinality(Storing) \in Nat
  BY <1>3, FS_CardinalityType
<1>5. ASSUME NEW S \in SUBSET Storing
      PROVE  Cardinality(S) \in Nat /\ Cardinality(S) <= Cardinality(Storing)
  <2>1. IsFiniteSet(S) /\ Cardinality(S) <= Cardinality(Storing)
    BY <1>3, <1>5, FS_Subset
  <2>. QED  BY <2>1, FS_CardinalityType
<1>. QED  BY <1>2, <1>3, <1>4, <1>5

\* Nobody but a question begins or ends a question, except a restore.
LEMMA OthersLeaveQuestions ==
  ASSUME TypeOK, NEW p \in Deleters \cup Machines,
         \/ OwnerAsks(p) \/ OperatorAsks(p) \/ AttemptStep(p) \/ Crash(p)
         \/ ReadList(p) \/ FindPresent(p) \/ LockListed(p)
         \/ DeleteAgain(p) \/ Skip(p) \/ GiveUp(p)
  PROVE  \A a \in Askers : task'[a] = task[a]
<1>1. \E r : task' = [task EXCEPT ![p] = r]
  BY DEF OwnerAsks, OperatorAsks, AttemptStep, Plan, Refuse, Record, RecordFails, Commit,
     CommitUnheard, CommitFails, StillThere, Forget, KeepListed, Crash, ReadList, FindPresent,
     LockListed, DeleteAgain, Skip, GiveUp, Becomes, Goes, Idle
<1>2. p \notin Askers
  BY ProcessesAssumption
<1>. QED  BY <1>1, <1>2 DEF TypeOK, Processes

\* A step that admits no question leaves no more of them, and one that counts
\* an answer leaves one fewer.
LEMMA StoringStep ==
  ASSUME TypeOK, [Next]_vars
  PROVE  \/ \E a \in Askers : Admit(a)
         \/ Storing' \subseteq Storing /\ ~ \E a \in Askers : CommitAnswer(a)
         \/ \E a \in Storing : Storing' \subseteq Storing \ {a}
<1>1. CASE \A a \in Askers : task'[a] = task[a]
  <2>1. Storing' \subseteq Storing
    BY <1>1 DEF Storing, At
  <2>2. ASSUME NEW a \in Askers, CommitAnswer(a) PROVE FALSE
    BY <1>1, <2>2 DEF CommitAnswer, At, Idle, Becomes, TypeOK, Processes
  <2>. QED  BY <2>1, <2>2
<1>2. CASE \E a \in Askers : RequestStep(a)
  <2>. PICK a \in Askers : RequestStep(a)
    BY <1>2
  <2>1. a \in Processes
    BY DEF Processes
  <2>2. CASE StoreAnswer(a)
    <3>1. /\ task'[a].step = "stored" /\ a \in Storing
          /\ \A q \in Askers \ {a} : task'[q] = task[q]
      <4>. "stored" \in Steps
        BY DEF Steps
      <4>. QED  BY <2>1, <2>2, GoesType DEF StoreAnswer, Storing, At, Processes
    <3>2. Storing' \subseteq Storing
      BY <3>1 DEF Storing, At
    <3>3. ASSUME NEW c \in Askers, CommitAnswer(c) PROVE FALSE
      <4>1. task'[c].step = "idle" /\ task[c].step = "stored"
        BY <3>3, IdleType DEF CommitAnswer, At, Processes
      <4>. QED  BY <3>1, <4>1
    <3>. QED  BY <3>2, <3>3
  <2>3. CASE CommitAnswer(a) \/ Abandon(a)
    <3>1. /\ task'[a].step = "idle" /\ a \in Storing
          /\ \A q \in Askers \ {a} : task'[q] = task[q]
      BY <2>1, <2>3, IdleType DEF CommitAnswer, Abandon, Storing, At, Processes
    <3>2. Storing' \subseteq Storing \ {a}
      BY <3>1 DEF Storing, At
    <3>. QED  BY <3>1, <3>2
  <2>. QED  BY <2>2, <2>3 DEF RequestStep
<1>3. CASE \E b \in backups : Restore(b)
  <2>1. \A a \in Askers : task'[a].step = "idle"
    BY <1>3 DEF Restore, NoTask, Processes
  <2>2. Storing' = {}
    BY <2>1 DEF Storing, At
  <2>3. ASSUME NEW a \in Askers, CommitAnswer(a) PROVE a \in Storing
    BY <2>3 DEF CommitAnswer, Storing
  <2>. QED  BY <2>2, <2>3
<1>. QED
  BY <1>1, <1>2, <1>3, OthersLeaveQuestions
  DEF Next, vars, SignUp, Webhook, Backup, Prune, Deleters

\* The bound survives every step.
LEMMA BoundStep ==
  ASSUME IInv, BoundInv, [Next]_vars
  PROVE  BoundInv'
<1>1. /\ Answers \in Nat /\ Cardinality(Storing) \in Nat
      /\ Cardinality(Askers) \in Nat /\ TrialAnswers \in Nat
  BY StoringSize, BoundsAssumption DEF IInv, TypeOK, Database, Answers
<1>2. \A b \in backups' : b.used + b.stone < TrialAnswers + Cardinality(Askers)
  <2>1. backups' \subseteq backups \cup {db}
    BY DEF Next, vars, OwnerAsks, OperatorAsks, AttemptStep, Plan, Refuse, Record, RecordFails,
       Commit, CommitUnheard, CommitFails, StillThere, Forget, KeepListed, Crash, ReadList,
       FindPresent, LockListed, DeleteAgain, Skip, GiveUp, Admit, RequestStep, StoreAnswer,
       CommitAnswer, Abandon, SignUp, Webhook, Backup, Prune, Restore
  <2>2. db.used + db.stone < TrialAnswers + Cardinality(Askers)
    BY <1>1 DEF BoundInv, Answers
  <2>. QED  BY <2>1, <2>2 DEF BoundInv
<1>3. Cardinality(Storing)' \in Nat /\ Cardinality(Storing)' <= Cardinality(Askers)
  BY ProcessesAssumption, FS_Subset, FS_CardinalityType, Storing' \in SUBSET Askers
  DEF Storing
<1>4. CASE \E a \in Askers : Admit(a)
  <2>1. db' = db /\ Answers < TrialAnswers
    BY <1>4 DEF Admit, Answers, TrialUsed
  <2>2. Answers' = Answers
    BY <2>1 DEF Answers
  <2>3. Answers + Cardinality(Storing)' < TrialAnswers + Cardinality(Askers)
    BY <1>1, <1>3, <2>1
  <2>. QED  BY <1>2, <2>2, <2>3 DEF BoundInv
<1>5. CASE \E b \in backups : Restore(b)
  <2>. PICK b \in backups : Restore(b)
    BY <1>5
  <2>1. Answers' < TrialAnswers + Cardinality(Askers) /\ Answers' \in Nat
    BY DEF Restore, BoundInv, Answers, IInv, TypeOK, Database
  <2>2. \A a \in Askers : task'[a].step = "idle"
    BY DEF Restore, NoTask, Processes
  <2>3. Storing' = {}
    BY <2>2 DEF Storing, At
  <2>4. Cardinality(Storing)' = 0
    BY <2>3, FS_EmptySet
  <2>. QED  BY <1>1, <1>2, <2>1, <2>4 DEF BoundInv
<1>6. CASE /\ Answers' = Answers
           /\ Storing' \subseteq Storing
  <2>1. Cardinality(Storing)' <= Cardinality(Storing)
    BY <1>6, StoringSize
  <2>2. Answers + Cardinality(Storing)' < TrialAnswers + Cardinality(Askers)
    BY <1>1, <1>3, <2>1 DEF BoundInv
  <2>. QED  BY <1>2, <1>6, <2>2 DEF BoundInv
<1>7. CASE /\ Answers' = Answers \/ Answers' = Answers + 1
           /\ \E a \in Storing : Storing' \subseteq Storing \ {a}
  <2>. PICK a \in Storing : Storing' \subseteq Storing \ {a}
    BY <1>7
  <2>1. IsFiniteSet(Storing)
    BY ProcessesAssumption, FS_Subset, Storing \in SUBSET Askers DEF Storing
  <2>2. /\ IsFiniteSet(Storing \ {a})
        /\ Cardinality(Storing \ {a}) = Cardinality(Storing) - 1
    BY <2>1, FS_RemoveElement
  <2>3. Cardinality(Storing)' <= Cardinality(Storing) - 1
    BY <2>2, FS_Subset
  <2>4. Answers' + Cardinality(Storing)' < TrialAnswers + Cardinality(Askers)
    BY <1>1, <1>3, <1>7, <2>3 DEF BoundInv
  <2>. QED  BY <1>2, <2>4 DEF BoundInv
<1>. QED
  BY <1>4, <1>5, <1>6, <1>7, AnswersStep, StoringStep DEF IInv

\* Questions in flight can carry the address past the limit by no more than one
\* answer each, over deletions, new accounts and restores.
THEOREM OvershootStaysBounded == Spec => []OvershootIsBounded
<1>1. Init => BoundInv
  <2>. SUFFICES ASSUME Init PROVE BoundInv
    OBVIOUS
  <2>1. Answers = 0 /\ backups = {}
    BY DEF Init, Answers
  <2>2. \A a \in Askers : task[a].step = "idle"
    BY DEF Init, NoTask, Processes
  <2>3. Storing = {}
    BY <2>2 DEF Storing, At
  <2>4. Cardinality(Storing) = 0
    BY <2>3, FS_EmptySet
  <2>. QED  BY <2>1, <2>4, StoringSize, BoundsAssumption DEF BoundInv
<1>2. IInv /\ BoundInv /\ [Next]_vars => BoundInv'
  BY BoundStep
<1>3. IInv /\ BoundInv => OvershootIsBounded
  <2>. SUFFICES ASSUME IInv, BoundInv PROVE OvershootIsBounded
    OBVIOUS
  <2>1. Answers \in Nat
    BY DEF IInv, TypeOK, Database, Answers
  <2>. QED  BY <2>1, StoringSize, BoundsAssumption DEF BoundInv, OvershootIsBounded
<1>. QED  BY <1>1, <1>2, <1>3, RowIsKnown, PTL DEF Spec

----------------------------------------------------------------------------
(* Deleted for good.                                                       *)

\* One attempt at a time, by the owner. With two, the undo of one that failed
\* can take from the list what the other one deleted.
OneOwner == Operators = {} /\ \A p, q \in Owners : p = q

\* What is reported deleted and could come back is listed, and no attempt that
\* is under way is about it.
GoneInv ==
  /\ Restorable \subseteq born \cup {None}
  /\ gone \subseteq born
  /\ \A i \in gone \cap Restorable : i \in listed
  /\ \A p \in Owners : ~ At(p, "idle") => task[p].acct \in Accounts \ gone
  /\ \A p \in Owners : At(p, "recorded") /\ lock = p => task[p].acct \in listed

\* A step of anyone but the owner, that takes nothing restorable off the list.
LEMMA GoneKept ==
  ASSUME IInv, GoneInv,
         \A p \in Owners : task'[p] = task[p] /\ (lock' = p => lock = p),
         gone' = gone, born \subseteq born',
         Restorable' \subseteq Restorable \cup {None} \cup (born' \ born),
         listed \cap Restorable \subseteq listed'
  PROVE  GoneInv'
<1>1. None \notin gone
  BY NoneAssumption DEF IInv, TypeOK
<1>2. Restorable' \subseteq born' \cup {None} /\ gone' \subseteq born'
  BY DEF GoneInv
<1>3. \A i \in gone' \cap Restorable' : i \in listed'
  BY <1>1 DEF GoneInv
<1>4. \A p \in Owners : ~ At(p, "idle")' => task'[p].acct \in Accounts \ gone'
  BY DEF GoneInv, At
<1>5. ASSUME NEW p \in Owners, At(p, "recorded")', lock' = p
      PROVE  task'[p].acct \in listed'
  <2>1. At(p, "recorded") /\ lock = p /\ task'[p].acct = task[p].acct
    BY <1>5 DEF At
  <2>2. task[p].acct \in listed /\ task[p].acct = db.acct
    BY <2>1 DEF GoneInv, IInv, LockInv, Lockers, Deleters
  <2>. QED  BY <2>1, <2>2 DEF Restorable
<1>. QED  BY <1>2, <1>3, <1>4, <1>5 DEF GoneInv

\* The owner's own steps.
LEMMA GoneOwnerStep ==
  ASSUME IInv, GoneInv, OneOwner, NEW p \in Owners,
         OwnerAsks(p) \/ AttemptStep(p) \/ Crash(p)
  PROVE  GoneInv'
<1>. USE DEF IInv
<1>p. p \in Processes /\ p \in Lockers /\ p \in Deleters /\ \A q \in Owners : q = p
  BY DEF Processes, Lockers, Deleters, OneOwner
<1>n. None \notin gone /\ None \notin Accounts
  BY NoneAssumption DEF TypeOK
<1>s. {"asked", "planned", "recorded", "undoing", "unlisting", "idle"} \subseteq Steps
  BY DEF Steps
<1>a. ~ At(p, "idle") => task[p].acct \in Accounts \ gone
  BY DEF GoneInv
<1>1. CASE OwnerAsks(p)
  <2>1. db.acct \in Accounts \ gone
    BY <1>1, <1>n DEF OwnerAsks, Gate, Exists, TypeOK, Database, GoneInv, Restorable
  <2>2. task'[p].step = "asked" /\ task'[p].acct = db.acct
    BY <1>1, <1>p, <1>s, <2>1, BecomesType DEF OwnerAsks
  <2>. QED  BY <1>1, <1>p, <2>1, <2>2 DEF OwnerAsks, GoneInv, At, Restorable
<1>2. CASE Plan(p)
  <2>1. task[p].acct \in Accounts \ gone /\ task[p].acct = db.acct
    BY <1>2, <1>a, <1>n DEF Plan, Found, At
  <2>2. task'[p].step = "planned" /\ task'[p].acct = db.acct
    <3>. db.used \in Nat
      BY DEF TypeOK, Database
    <3>. QED  BY <1>2, <1>p, <1>s, <2>1, BecomesType DEF Plan
  <2>. QED  BY <1>2, <1>p, <2>1, <2>2 DEF Plan, GoneInv, At, Restorable
<1>3. CASE Refuse(p) \/ KeepListed(p) \/ Crash(p)
  <2>1. task'[p].step = "idle"
    BY <1>3, <1>p, IdleType DEF Refuse, KeepListed, Crash
  <2>2. UNCHANGED <<db, backups, listed, born, gone>>
    BY <1>3 DEF Refuse, KeepListed, Crash
  <2>. QED  BY <1>p, <2>1, <2>2 DEF GoneInv, At, Restorable
<1>4. CASE Record(p)
  <2>1. task[p].acct \in Accounts \ gone
    BY <1>4, <1>a DEF Record, At
  <2>2. task'[p].step = "recorded" /\ task'[p].acct = task[p].acct
    BY <1>4, <1>p, <1>s, GoesType DEF Record
  <2>3. listed' = listed \cup {task[p].acct}
    BY <1>4 DEF Record
  <2>. QED  BY <1>4, <1>p, <2>1, <2>2, <2>3 DEF Record, GoneInv, At, Restorable
<1>5. CASE RecordFails(p) \/ CommitFails(p) \/ StillThere(p)
  <2>1. task[p].acct \in Accounts \ gone
    BY <1>5, <1>a DEF RecordFails, CommitFails, StillThere, At
  <2>2. task'[p].step \in {"undoing", "unlisting"} /\ task'[p].acct = task[p].acct
    BY <1>5, <1>p, <1>s, GoesType DEF RecordFails, CommitFails, StillThere
  <2>3. listed \subseteq listed' /\ UNCHANGED <<db, backups, born, gone>>
    BY <1>5 DEF RecordFails, CommitFails, StillThere
  <2>. QED  BY <1>p, <2>1, <2>2, <2>3 DEF GoneInv, At, Restorable
<1>6. CASE Commit(p) \/ CommitUnheard(p)
  <2>1. /\ task[p].acct = db.acct /\ db.acct \in Accounts \ gone
        /\ task[p].acct \in listed /\ db.acct \in born
    BY <1>6, <1>a, <1>n, <1>p DEF Commit, CommitUnheard, At, LockInv, GoneInv, Restorable
  <2>2. Restorable' \subseteq Restorable \cup {None}
    BY <1>6 DEF Commit, CommitUnheard, Removed, Restorable
  <2>3. CASE Commit(p)
    <3>1. task'[p].step = "idle"
      BY <2>3, <1>p, IdleType DEF Commit
    <3>2. gone' = gone \cup {db.acct} /\ UNCHANGED <<listed, born>>
      BY <2>1, <2>3 DEF Commit
    <3>. QED  BY <1>n, <1>p, <2>1, <2>2, <3>1, <3>2 DEF GoneInv, At
  <2>4. CASE CommitUnheard(p)
    <3>1. task'[p].step = "undoing" /\ task'[p].acct = db.acct
      BY <2>1, <2>4, <1>p, <1>s, GoesType DEF CommitUnheard
    <3>2. UNCHANGED <<listed, born, gone>>
      BY <2>4 DEF CommitUnheard
    <3>. QED  BY <1>n, <1>p, <2>1, <2>2, <3>1, <3>2 DEF GoneInv, At
  <2>. QED  BY <1>6, <2>3, <2>4
<1>7. CASE Forget(p)
  <2>1. task[p].acct \notin gone
    BY <1>7, <1>a DEF Forget, At
  <2>2. task'[p].step = "idle"
    BY <1>7, <1>p, IdleType DEF Forget
  <2>3. listed' = listed \ {task[p].acct} /\ UNCHANGED <<db, backups, born, gone>>
    BY <1>7 DEF Forget
  <2>. QED  BY <1>p, <2>1, <2>2, <2>3 DEF GoneInv, At, Restorable
<1>. QED  BY <1>1, <1>2, <1>3, <1>4, <1>5, <1>6, <1>7 DEF AttemptStep

\* A reapply run deletes and reads, a question counts: neither touches what the
\* owner's attempt has noted.
LEMMA GoneOthersStep ==
  ASSUME IInv, GoneInv,
         \/ \E m \in Machines :
              \/ ReadList(m) \/ FindPresent(m) \/ LockListed(m)
              \/ DeleteAgain(m) \/ Skip(m) \/ GiveUp(m)
         \/ \E a \in Askers : Admit(a) \/ RequestStep(a)
  PROVE  GoneInv'
<1>. PICK q \in Machines \cup Askers :
       \/ /\ q \in Machines
          /\ \/ ReadList(q) \/ FindPresent(q) \/ LockListed(q)
             \/ DeleteAgain(q) \/ Skip(q) \/ GiveUp(q)
       \/ q \in Askers /\ (Admit(q) \/ RequestStep(q))
  OBVIOUS
<1>1. \E r : task' = [task EXCEPT ![q] = r]
  BY DEF ReadList, FindPresent, LockListed, DeleteAgain, Skip, GiveUp, Admit, RequestStep,
     StoreAnswer, CommitAnswer, Abandon, Becomes, Goes, Idle
<1>2. \A p \in Owners : p \in Processes /\ p # q /\ p # None
  BY ProcessesAssumption, NoneAssumption DEF Deleters, Processes
<1>3. \A p \in Owners : task'[p] = task[p]
  BY <1>1, <1>2 DEF IInv, TypeOK
<1>4. lock' \in {lock, None, q}
  BY DEF ReadList, FindPresent, LockListed, DeleteAgain, Skip, GiveUp, Admit, RequestStep,
     StoreAnswer, CommitAnswer, Abandon, Released
<1>5. gone' = gone /\ born' = born
  BY DEF ReadList, FindPresent, LockListed, DeleteAgain, Skip, GiveUp, Admit, RequestStep,
     StoreAnswer, CommitAnswer, Abandon
<1>6. listed \cap Restorable \subseteq listed'
  BY DEF ReadList, FindPresent, LockListed, DeleteAgain, Skip, GiveUp, Admit, RequestStep,
     StoreAnswer, CommitAnswer, Abandon
<1>7. db'.acct \in {db.acct, None} /\ backups' = backups
  <2>1. CASE q \in Machines
    BY <2>1, ProcessesAssumption DEF ReadList, FindPresent, LockListed, DeleteAgain, Skip,
       GiveUp, Removed
  <2>2. CASE Admit(q) \/ StoreAnswer(q) \/ Abandon(q)
    BY <2>2 DEF Admit, StoreAnswer, Abandon
  <2>3. CASE CommitAnswer(q)
    BY <2>3 DEF CommitAnswer, IInv, TypeOK, Database
  <2>. QED  BY <2>1, <2>2, <2>3 DEF RequestStep
<1>8. Restorable' \subseteq Restorable \cup {None}
  BY <1>7 DEF Restorable
<1>. QED  BY <1>2, <1>3, <1>4, <1>5, <1>6, <1>8, GoneKept

\* New accounts have new ids; a restore brings back only what a backup holds.
LEMMA GoneEnvironmentStep ==
  ASSUME IInv, GoneInv,
         \/ \E i \in Accounts : SignUp(i)
         \/ Webhook \/ Backup
         \/ \E b \in backups : Prune(b) \/ Restore(b)
  PROVE  GoneInv'
<1>n. \A p \in Owners : p # None /\ p \in Processes /\ p \notin Askers
  BY NoneAssumption, ProcessesAssumption DEF Deleters, Processes
<1>1. CASE \E i \in Accounts : SignUp(i)
  <2>. PICK i \in Accounts : SignUp(i)
    BY <1>1
  <2>1. db'.acct = i /\ i \in born' \ born
    BY DEF SignUp, IInv, TypeOK, Database
  <2>2. Restorable' \subseteq Restorable \cup (born' \ born)
    BY <2>1 DEF SignUp, Restorable
  <2>. QED  BY <2>2, GoneKept DEF SignUp
<1>2. CASE Webhook
  <2>1. db'.acct = db.acct
    BY <1>2 DEF Webhook, IInv, TypeOK, Database
  <2>2. Restorable' = Restorable
    BY <1>2, <2>1 DEF Webhook, Restorable
  <2>. QED  BY <1>2, <2>2, GoneKept DEF Webhook
<1>3. CASE Backup
  <2>1. Restorable' = Restorable
    BY <1>3 DEF Backup, Restorable
  <2>. QED  BY <1>3, <2>1, GoneKept DEF Backup
<1>4. CASE \E b \in backups : Prune(b)
  <2>1. Restorable' \subseteq Restorable
    BY <1>4 DEF Prune, Restorable
  <2>. QED  BY <1>4, <2>1, GoneKept DEF Prune
<1>5. CASE \E b \in backups : Restore(b)
  <2>1. Restorable' \subseteq Restorable
    BY <1>5 DEF Restore, Restorable
  <2>2. \A p \in Owners : task'[p] = task[p] /\ lock' # p
    BY <1>5, <1>n DEF Restore
  <2>. QED  BY <1>5, <2>1, <2>2, GoneKept DEF Restore
<1>. QED  BY <1>1, <1>2, <1>3, <1>4, <1>5

\* With one attempt at a time by the owner, an account whose deletion was
\* reported done is refused whenever a restore brings it back, for any number
\* of reapply runs, questions, backups and restores.
THEOREM DeletedForGood ==
  ASSUME OneOwner
  PROVE  Spec => []DeletedStaysUnusable
<1>1. Init => GoneInv
  BY DEF Init, GoneInv, Restorable, At, NoTask, Processes, Deleters
<1>2. IInv /\ GoneInv /\ [Next]_vars => GoneInv'
  <2>. SUFFICES ASSUME IInv, GoneInv, [Next]_vars PROVE GoneInv'
    OBVIOUS
  <2>1. CASE UNCHANGED vars
    BY <2>1 DEF vars, GoneInv, Restorable, At
  <2>2. CASE Next
    <3>1. Deleters = Owners /\ Operators = {}
      BY OneOwner DEF OneOwner, Deleters
    <3>. QED
      BY <2>2, <3>1, OneOwner, GoneOwnerStep, GoneOthersStep, GoneEnvironmentStep DEF Next
  <2>. QED  BY <2>1, <2>2
<1>3. GoneInv => DeletedStaysUnusable
  BY DEF GoneInv, DeletedStaysUnusable, Exists, Restorable
<1>. QED  BY <1>1, <1>2, <1>3, RowIsKnown, PTL DEF Spec

----------------------------------------------------------------------------
(* What the list needs of the undos.                                       *)

\* The undo of an attempt that failed takes an account from the list.  It
\* crosses no other deletion of the account: none was reported done, and none
\* has listed the account and holds its row to commit.
CrossesNone(p) ==
  /\ task[p].acct \notin gone
  /\ \A q \in Deleters : At(q, "recorded") /\ lock = q => task[q].acct # task[p].acct

UndosCrossNone == [][\A p \in Deleters : Forget(p) => CrossesNone(p)]_vars

\* What was reported deleted and could come back is listed; so is what is about
\* to be deleted.
ListedInv ==
  /\ Restorable \subseteq born \cup {None}
  /\ gone \subseteq born
  /\ gone \cap Restorable \subseteq listed
  /\ \A p \in Deleters : At(p, "recorded") /\ lock = p => task[p].acct \in listed

\* A step that reports nothing deleted and takes nothing restorable from the list,
\* and brings no attempt to its commit.
LEMMA ListedKept ==
  ASSUME IInv, ListedInv,
         \A p \in Deleters : At(p, "recorded")' /\ lock' = p =>
           At(p, "recorded") /\ lock = p /\ task'[p] = task[p],
         gone' = gone, born \subseteq born',
         Restorable' \subseteq Restorable \cup {None} \cup (born' \ born),
         listed \cap Restorable \subseteq listed'
  PROVE  ListedInv'
<1>1. None \notin gone
  BY NoneAssumption DEF IInv, TypeOK
<1>2. Restorable' \subseteq born' \cup {None} /\ gone' \subseteq born'
  BY DEF ListedInv
<1>3. gone' \cap Restorable' \subseteq listed'
  BY <1>1 DEF ListedInv
<1>4. ASSUME NEW p \in Deleters, At(p, "recorded")', lock' = p
      PROVE  task'[p].acct \in listed'
  <2>1. At(p, "recorded") /\ lock = p /\ task'[p] = task[p]
    BY <1>4
  <2>2. task[p].acct \in listed /\ task[p].acct = db.acct
    BY <2>1 DEF ListedInv, IInv, LockInv, Lockers
  <2>. QED  BY <2>1, <2>2 DEF Restorable
<1>. QED  BY <1>2, <1>3, <1>4 DEF ListedInv

\* The steps of an attempt, of an owner or an operator.
LEMMA ListedAttemptStep ==
  ASSUME IInv, ListedInv, NEW p \in Deleters,
         OwnerAsks(p) \/ OperatorAsks(p) \/ AttemptStep(p) \/ Crash(p),
         Forget(p) => CrossesNone(p)
  PROVE  ListedInv'
<1>. USE DEF IInv
<1>p. p \in Processes /\ p \in Lockers
  BY DEF Processes, Lockers
<1>n. None \notin gone /\ None \notin Accounts
  BY NoneAssumption DEF TypeOK
<1>s. {"asked", "planned", "recorded", "undoing", "unlisting", "idle"} \subseteq Steps
  BY DEF Steps
<1>d. Deleters \subseteq Processes
  BY DEF Processes
<1>1. CASE \/ OwnerAsks(p) \/ OperatorAsks(p) \/ Plan(p) \/ Refuse(p) \/ KeepListed(p)
           \/ Crash(p) \/ RecordFails(p) \/ CommitFails(p) \/ StillThere(p)
  <2>1. task'[p].step # "recorded"
    <3>1. CASE OwnerAsks(p)
      <4>1. db.acct \in Accounts \cup {None}
        BY DEF TypeOK, Database
      <4>. QED  BY <3>1, <4>1, <1>p, <1>s, BecomesType DEF OwnerAsks
    <3>2. CASE OperatorAsks(p)
      BY <3>2, <1>p, <1>s, GoesType DEF OperatorAsks
    <3>3. CASE Plan(p)
      <4>1. db.acct \in Accounts \cup {None} /\ db.used \in Nat
        BY DEF TypeOK, Database
      <4>. QED  BY <3>3, <4>1, <1>p, <1>s, BecomesType DEF Plan
    <3>4. CASE Refuse(p) \/ KeepListed(p) \/ Crash(p)
      BY <3>4, <1>p, IdleType DEF Refuse, KeepListed, Crash
    <3>5. CASE RecordFails(p) \/ CommitFails(p) \/ StillThere(p)
      BY <3>5, <1>p, <1>s, GoesType DEF RecordFails, CommitFails, StillThere
    <3>. QED  BY <1>1, <3>1, <3>2, <3>3, <3>4, <3>5
  <2>2. \E r : task' = [task EXCEPT ![p] = r]
    BY <1>1 DEF OwnerAsks, OperatorAsks, Plan, Refuse, KeepListed, Crash, RecordFails,
       CommitFails, StillThere, Becomes, Goes, Idle
  <2>3. \A q \in Deleters \ {p} : task'[q] = task[q]
    BY <2>2, <1>d DEF TypeOK
  <2>4. lock' \in {lock, None, p}
    BY <1>1 DEF OwnerAsks, OperatorAsks, Plan, Refuse, KeepListed, Crash, RecordFails,
       CommitFails, StillThere, Released
  <2>5. listed \subseteq listed' /\ UNCHANGED <<db, backups, born, gone>>
    BY <1>1 DEF OwnerAsks, OperatorAsks, Plan, Refuse, KeepListed, Crash, RecordFails,
       CommitFails, StillThere
  <2>6. \A q \in Deleters : At(q, "recorded")' /\ lock' = q =>
          At(q, "recorded") /\ lock = q /\ task'[q] = task[q]
    <3>. TAKE q \in Deleters
    <3>1. q # None
      BY NoneAssumption, <1>d
    <3>. QED  BY <2>1, <2>3, <2>4, <3>1 DEF At
  <2>. QED  BY <2>5, <2>6, ListedKept DEF Restorable
<1>2. CASE Record(p)
  <2>1. task'[p].acct = task[p].acct /\ \A q \in Processes \ {p} : task'[q] = task[q]
    BY <1>2, <1>p, <1>s, GoesType DEF Record
  <2>2. listed' = listed \cup {task[p].acct} /\ lock = p
        /\ UNCHANGED <<db, backups, lock, born, gone>>
    BY <1>2 DEF Record
  <2>3. ASSUME NEW q \in Deleters, At(q, "recorded")', lock' = q
        PROVE  task'[q].acct \in listed'
    BY <2>1, <2>2, <2>3
  <2>. QED  BY <2>2, <2>3 DEF ListedInv, Restorable
<1>3. CASE Commit(p) \/ CommitUnheard(p)
  <2>1. /\ task[p].acct = db.acct /\ db.acct \in Accounts
        /\ task[p].acct \in listed /\ db.acct \in born
    BY <1>3, <1>n, <1>p DEF Commit, CommitUnheard, At, LockInv, ListedInv, Restorable
  <2>2. Restorable' \subseteq Restorable \cup {None}
    BY <1>3 DEF Commit, CommitUnheard, Removed, Restorable
  <2>3. gone' \subseteq gone \cup {db.acct} /\ UNCHANGED <<listed, born>> /\ lock' = None
    BY <1>3, <2>1 DEF Commit, CommitUnheard
  <2>4. \A q \in Deleters : q # None
    BY NoneAssumption, <1>d
  <2>. QED  BY <1>n, <2>1, <2>2, <2>3, <2>4 DEF ListedInv
<1>4. CASE Forget(p)
  <2>1. CrossesNone(p)
    BY <1>4
  <2>2. task'[p].step = "idle" /\ \A q \in Processes \ {p} : task'[q] = task[q]
    BY <1>4, <1>p, IdleType DEF Forget
  <2>3. listed' = listed \ {task[p].acct} /\ UNCHANGED <<db, backups, lock, born, gone>>
    BY <1>4 DEF Forget
  <2>4. ASSUME NEW q \in Deleters, At(q, "recorded")', lock' = q
        PROVE  task'[q].acct \in listed'
    <3>1. q # p /\ task'[q] = task[q]
      BY <2>2, <2>4, <1>d DEF At
    <3>2. At(q, "recorded") /\ lock = q
      BY <2>3, <2>4, <3>1 DEF At
    <3>. QED  BY <2>1, <2>3, <3>1, <3>2 DEF CrossesNone, ListedInv
  <2>5. gone' \cap Restorable' \subseteq listed'
    BY <2>1, <2>3 DEF CrossesNone, ListedInv, Restorable
  <2>. QED  BY <2>3, <2>4, <2>5 DEF ListedInv, Restorable
<1>. QED  BY <1>1, <1>2, <1>3, <1>4 DEF AttemptStep

\* Reapply runs and questions.
LEMMA ListedOthersStep ==
  ASSUME IInv, ListedInv,
         \/ \E m \in Machines :
              \/ ReadList(m) \/ FindPresent(m) \/ LockListed(m)
              \/ DeleteAgain(m) \/ Skip(m) \/ GiveUp(m)
         \/ \E a \in Askers : Admit(a) \/ RequestStep(a)
  PROVE  ListedInv'
<1>. PICK q \in Machines \cup Askers :
       \/ /\ q \in Machines
          /\ \/ ReadList(q) \/ FindPresent(q) \/ LockListed(q)
             \/ DeleteAgain(q) \/ Skip(q) \/ GiveUp(q)
       \/ q \in Askers /\ (Admit(q) \/ RequestStep(q))
  OBVIOUS
<1>1. \E r : task' = [task EXCEPT ![q] = r]
  BY DEF ReadList, FindPresent, LockListed, DeleteAgain, Skip, GiveUp, Admit, RequestStep,
     StoreAnswer, CommitAnswer, Abandon, Becomes, Goes, Idle
<1>2. \A p \in Deleters : p \in Processes /\ p # q /\ p # None
  BY ProcessesAssumption, NoneAssumption DEF Processes
<1>3. \A p \in Deleters : task'[p] = task[p]
  BY <1>1, <1>2 DEF IInv, TypeOK
<1>4. lock' \in {lock, None, q}
  BY DEF ReadList, FindPresent, LockListed, DeleteAgain, Skip, GiveUp, Admit, RequestStep,
     StoreAnswer, CommitAnswer, Abandon, Released
<1>5. gone' = gone /\ born' = born
  BY DEF ReadList, FindPresent, LockListed, DeleteAgain, Skip, GiveUp, Admit, RequestStep,
     StoreAnswer, CommitAnswer, Abandon
<1>6. listed \cap Restorable \subseteq listed'
  BY DEF ReadList, FindPresent, LockListed, DeleteAgain, Skip, GiveUp, Admit, RequestStep,
     StoreAnswer, CommitAnswer, Abandon
<1>7. db'.acct \in {db.acct, None} /\ backups' = backups
  <2>1. CASE q \in Machines
    BY <2>1, ProcessesAssumption DEF ReadList, FindPresent, LockListed, DeleteAgain, Skip,
       GiveUp, Removed
  <2>2. CASE Admit(q) \/ StoreAnswer(q) \/ Abandon(q)
    BY <2>2 DEF Admit, StoreAnswer, Abandon
  <2>3. CASE CommitAnswer(q)
    BY <2>3 DEF CommitAnswer, IInv, TypeOK, Database
  <2>. QED  BY <2>1, <2>2, <2>3 DEF RequestStep
<1>8. Restorable' \subseteq Restorable \cup {None}
  BY <1>7 DEF Restorable
<1>9. \A p \in Deleters : At(p, "recorded")' /\ lock' = p =>
        At(p, "recorded") /\ lock = p /\ task'[p] = task[p]
  BY <1>2, <1>3, <1>4 DEF At
<1>. QED  BY <1>5, <1>6, <1>8, <1>9, ListedKept

\* New accounts, webhooks, backups and restores.
LEMMA ListedEnvironmentStep ==
  ASSUME IInv, ListedInv,
         \/ \E i \in Accounts : SignUp(i)
         \/ Webhook \/ Backup
         \/ \E b \in backups : Prune(b) \/ Restore(b)
  PROVE  ListedInv'
<1>1. CASE \E i \in Accounts : SignUp(i)
  <2>. PICK i \in Accounts : SignUp(i)
    BY <1>1
  <2>1. db'.acct = i /\ i \in born' \ born
    BY DEF SignUp, IInv, TypeOK, Database
  <2>2. Restorable' \subseteq Restorable \cup (born' \ born)
    BY <2>1 DEF SignUp, Restorable
  <2>. QED  BY <2>2, ListedKept DEF SignUp, At
<1>2. CASE Webhook
  <2>1. db'.acct = db.acct
    BY <1>2 DEF Webhook, IInv, TypeOK, Database
  <2>2. Restorable' = Restorable
    BY <1>2, <2>1 DEF Webhook, Restorable
  <2>. QED  BY <1>2, <2>2, ListedKept DEF Webhook, At
<1>3. CASE Backup
  <2>1. Restorable' = Restorable
    BY <1>3 DEF Backup, Restorable
  <2>. QED  BY <1>3, <2>1, ListedKept DEF Backup, At
<1>4. CASE \E b \in backups : Prune(b)
  <2>1. Restorable' \subseteq Restorable
    BY <1>4 DEF Prune, Restorable
  <2>. QED  BY <1>4, <2>1, ListedKept DEF Prune, At
<1>5. CASE \E b \in backups : Restore(b)
  <2>1. Restorable' \subseteq Restorable
    BY <1>5 DEF Restore, Restorable
  <2>2. \A p \in Deleters : lock' # p
    BY <1>5, NoneAssumption DEF Restore, Processes
  <2>. QED  BY <1>5, <2>1, <2>2, ListedKept DEF Restore
<1>. QED  BY <1>1, <1>2, <1>3, <1>4, <1>5

\* For any number of owners and operators, attempts, failures and crashes: a
\* deletion that was reported done is lost to a restore only by an undo that
\* crosses another deletion of the same account, which deletion_undone shows.
THEOREM OnlyCrossedUndosLose ==
  Spec /\ UndosCrossNone => []DeletedStaysUnusable
<1>1. Init => ListedInv
  BY DEF Init, ListedInv, Restorable, At, NoTask, Processes
<1>2. ASSUME IInv, ListedInv, [Next]_vars,
             [\A p \in Deleters : Forget(p) => CrossesNone(p)]_vars
      PROVE  ListedInv'
  <2>1. CASE UNCHANGED vars
    BY <1>2, <2>1 DEF vars, ListedInv, Restorable, At
  <2>2. CASE Next /\ ~ UNCHANGED vars
    <3>1. \A p \in Deleters : Forget(p) => CrossesNone(p)
      BY <1>2, <2>2
    <3>2. Owners \subseteq Deleters /\ Operators \subseteq Deleters
      BY DEF Deleters
    <3>. QED
      BY <1>2, <2>2, <3>1, <3>2, ListedAttemptStep, ListedOthersStep, ListedEnvironmentStep
      DEF Next
  <2>. QED  BY <1>2, <2>1, <2>2
<1>3. ListedInv => DeletedStaysUnusable
  BY DEF ListedInv, DeletedStaysUnusable, Exists, Restorable
<1>. QED  BY <1>1, <1>2, <1>3, RowIsKnown, PTL DEF Spec, UndosCrossNone

----------------------------------------------------------------------------
(* SignIn.                                                                 *)

AccountType == [exists : BOOLEAN, address : Addresses \cup {Nobody}, password : BOOLEAN]

NonceType ==
  [state : {"new", "live", "gone"}, session : 0 .. MaxSessions,
   intent : {"login", "connect"}, starter : Principals \cup {Nobody}]

LinkType == [state : {"new", "live", "gone"}, account : Users \cup {Nobody}]

TabType ==
  [step : {"closed", "insert", "look", "signin", "password", "provider", "connect"},
   browser : Browsers \cup {Nobody}, cookie : 0 .. MaxSessions,
   account : Users \cup {Nobody}, creates : AccountType,
   identity : Identities \cup {Nobody}, old : Principals \cup {Nobody},
   nonce : NonceType, link : Links \cup {Nobody}]

RowTypes ==
  /\ account \in [Users -> AccountType]
  /\ session \in [SessionIds -> Principals \cup {Nobody}]
  /\ minted \in 0 .. MaxSessions /\ sent \in 0 .. MaxRequests
  /\ link \in [Links -> LinkType]
  /\ identity \in [Identities -> Users \cup {Nobody}]
  /\ owner \in [Conversations -> Principals \cup {Nobody}]
  /\ redeemed \in [Links -> Nat]

FlowTypes ==
  /\ cookie \in [Browsers -> 0 .. MaxSessions]
  /\ \A b \in Browsers : cookie[b] <= minted
  /\ nonce \in [Nonces -> NonceType]
  /\ \A n \in Nonces : nonce[n].session <= minted
  /\ tab \in [Tabs -> TabType]

SignInTypes == RowTypes /\ FlowTypes

\* A link is open, or in the hands of one request, or has signed in once.
LinkInv ==
  \A l \in Links :
    /\ redeemed[l] \in {0, 1}
    /\ link[l].state # "gone" => redeemed[l] = 0 /\ \A t \in Tabs : tab[t].link # l
    /\ \A t \in Tabs : tab[t].link = l => redeemed[l] = 0
    /\ \A t, u \in Tabs : tab[t].link = l /\ tab[u].link = l => t = u

\* The session a flow was started under is the starter's as long as it is there.
Bound(f) ==
  /\ f.session \in SessionIds /\ f.session <= minted
  /\ session[f.session] \in {f.starter, Nobody}

FlowInv ==
  /\ \A n \in Nonces : nonce[n].state = "live" => Bound(nonce[n])
  /\ \A t \in Tabs :
       /\ tab[t].step \in {"provider", "connect"} => Bound(tab[t].nonce)
       /\ tab[t].step = "provider" => tab[t].creates.exists = FALSE
       /\ tab[t].step = "connect" =>
            /\ tab[t].account = tab[t].nonce.starter /\ tab[t].account \in Users
            /\ tab[t].identity \in Identities

\* An identity that a request is about to insert is nobody's, and no other
\* request's.
PendingInv ==
  \A t \in Pending : tab[t].identity # Nobody =>
    /\ identity[tab[t].identity] = Nobody
    /\ \A u \in Pending : u # t => tab[u].identity # tab[t].identity

ReportInv ==
  \A r \in connected :
    /\ r.identity \in Identities /\ r.to \in Users
    /\ identity[r.identity] = r.to

SignInInv == SignInTypes /\ LinkInv /\ FlowInv /\ PendingInv /\ ReportInv

LEMMA Sentinel ==
  /\ Nobody \notin Users /\ Nobody \notin Identities /\ Nobody \notin Links
  /\ Nobody \notin SessionIds /\ Nobody \notin Addresses
  /\ \A a \in Users : a \notin SessionIds
  /\ MaxSessions \in Nat /\ MaxRequests \in Nat
BY SignInAssumption DEF SessionIds

----------------------------------------------------------------------------
(* Types.                                                                   *)

LEMMA ConstantTypes ==
  /\ NoAccount \in AccountType /\ NoAccount.exists = FALSE
  /\ NewLink \in LinkType /\ GoneLink \in LinkType /\ GoneLink.state = "gone"
  /\ NewNonce \in NonceType /\ NewNonce.session = 0 /\ NewNonce.state = "new"
  /\ GoneNonce \in NonceType /\ GoneNonce.session = 0 /\ GoneNonce.state = "gone"
<1>1. 0 \in 0 .. MaxSessions
  BY Sentinel
<1>. QED BY <1>1 DEF NoAccount, AccountType, NewLink, GoneLink, LinkType, NewNonce,
                     GoneNonce, Nonce, NonceType

LEMMA ClosedType ==
  Closed \in TabType /\ Closed.step = "closed" /\ Closed.link = Nobody
    /\ Closed.creates.exists = FALSE /\ Closed.identity = Nobody
<1>1. 0 \in 0 .. MaxSessions
  BY Sentinel
<1>. QED BY <1>1, ConstantTypes DEF Closed, TabType

LEMMA OpenType ==
  ASSUME SignInTypes, NEW b \in Browsers,
         NEW step \in {"insert", "look", "password", "provider"}
  PROVE  /\ Open(b, step) \in TabType
         /\ Open(b, step).step = step /\ Open(b, step).link = Nobody
         /\ Open(b, step).creates.exists = FALSE /\ Open(b, step).identity = Nobody
<1>1. cookie[b] \in 0 .. MaxSessions
  BY DEF SignInTypes, FlowTypes
<1>. QED BY <1>1, ClosedType DEF Open, TabType

LEMMA LookupType ==
  ASSUME SignInTypes, NEW c
  PROVE  /\ Lookup(c) \in Principals \cup {Nobody}
         /\ Lookup(c) # Nobody => c \in SessionIds /\ Lookup(c) = session[c]
BY DEF SignInTypes, RowTypes, Lookup

\* The request of one tab moves.
LEMMA OneTabMoves ==
  ASSUME SignInTypes, NEW t \in Tabs, NEW r \in TabType, TabGoes(t, r)
  PROVE  /\ tab' \in [Tabs -> TabType] /\ tab'[t] = r
         /\ \A u \in Tabs : u # t => tab'[u] = tab[u]
BY DEF SignInTypes, FlowTypes, TabGoes

LEMMA NoncesGo ==
  ASSUME SignInTypes, NEW retired
  PROVE  /\ WithoutNoncesOf(retired) \in [Nonces -> NonceType]
         /\ \A n \in Nonces : WithoutNoncesOf(retired)[n] \in {nonce[n], GoneNonce}
         /\ \A n \in Nonces : WithoutNoncesOf(retired)[n].session <= minted
         /\ \A n \in Nonces : WithoutNoncesOf(retired)[n].state = "live" =>
              WithoutNoncesOf(retired)[n] = nonce[n] /\ nonce[n].session \notin retired
<1>1. minted \in Nat
  BY Sentinel DEF SignInTypes, RowTypes
<1>2. \A n \in Nonces : WithoutNoncesOf(retired)[n] \in {nonce[n], GoneNonce}
  BY DEF WithoutNoncesOf
<1>3. WithoutNoncesOf(retired) \in [Nonces -> NonceType]
  BY <1>2, ConstantTypes DEF SignInTypes, FlowTypes, WithoutNoncesOf
<1>4. \A n \in Nonces : WithoutNoncesOf(retired)[n].session <= minted
  BY <1>1, <1>2, ConstantTypes DEF SignInTypes, FlowTypes
<1>. QED BY <1>2, <1>3, <1>4, ConstantTypes DEF WithoutNoncesOf

\* A new session: of an anonymous principal or of an account.
LEMMA SessionMade ==
  ASSUME SignInTypes, minted < MaxSessions, minted' = minted + 1
  PROVE  /\ minted' \in SessionIds /\ minted' \in 0 .. MaxSessions
         /\ minted' \in Principals
         /\ \A c \in 0 .. MaxSessions : c <= minted => c <= minted' /\ c # minted'
BY Sentinel DEF SignInTypes, RowTypes, SessionIds, Principals

LEMMA MintTypes ==
  ASSUME SignInTypes, NEW b \in Browsers, Mint(b)
  PROVE  /\ minted' \in 0 .. MaxSessions /\ minted' = minted + 1 /\ minted' \in SessionIds
         /\ session' \in [SessionIds -> Principals \cup {Nobody}]
         /\ session'[minted'] = minted'
         /\ \A s \in SessionIds : s # minted' => session'[s] = session[s]
         /\ cookie' \in [Browsers -> 0 .. MaxSessions] /\ cookie'[b] = minted'
         /\ \A c \in Browsers : cookie'[c] <= minted'
<1>1. /\ minted' \in 0 .. MaxSessions /\ minted' = minted + 1 /\ minted' \in SessionIds
      /\ minted' \in Principals
      /\ \A c \in 0 .. MaxSessions : c <= minted => c <= minted'
  BY SessionMade DEF Mint
<1>2. /\ session' = [session EXCEPT ![minted'] = minted']
      /\ cookie' = [cookie EXCEPT ![b] = minted']
  BY DEF Mint
<1>3. /\ session \in [SessionIds -> Principals \cup {Nobody}]
      /\ cookie \in [Browsers -> 0 .. MaxSessions]
      /\ \A c \in Browsers : cookie[c] <= minted
  BY DEF SignInTypes, RowTypes, FlowTypes
<1>4. /\ session' \in [SessionIds -> Principals \cup {Nobody}]
      /\ session'[minted'] = minted'
      /\ \A s \in SessionIds : s # minted' => session'[s] = session[s]
  BY <1>1, <1>2, <1>3
<1>5. cookie' \in [Browsers -> 0 .. MaxSessions] /\ cookie'[b] = minted'
  BY <1>1, <1>2, <1>3
<1>6. ASSUME NEW c \in Browsers PROVE cookie'[c] <= minted'
  <2>1. cookie'[c] = cookie[c] \/ cookie'[c] = minted'
    BY <1>2, <1>3
  <2>2. minted' <= minted'
    BY <1>1, Sentinel
  <2>. QED BY <2>1, <2>2, <1>1, <1>3
<1>. QED BY <1>1, <1>4, <1>5, <1>6

----------------------------------------------------------------------------
(* What the steps have in common.                                           *)

\* A request moves and nothing else happens.
LEMMA TabTypes ==
  ASSUME SignInTypes, NEW t \in Tabs, NEW r \in TabType, TabGoes(t, r),
         UNCHANGED <<account, session, minted, cookie, link, nonce, identity, owner, redeemed>>,
         sent' \in 0 .. MaxRequests
  PROVE  SignInTypes'
<1>1. tab' \in [Tabs -> TabType]
  BY OneTabMoves
<1>. QED BY <1>1 DEF SignInTypes, RowTypes, FlowTypes, LinkType, NonceType, AccountType

LEMMA SentType ==
  ASSUME SignInTypes, NEW t, NEW r, Sends(t, r)
  PROVE  sent' \in 0 .. MaxRequests /\ tab[t].step = "closed" /\ TabGoes(t, r)
BY Sentinel DEF SignInTypes, RowTypes, Sends

\* Links only leave the hands of a request.
LEMMA LinksStand ==
  ASSUME LinkInv, UNCHANGED redeemed,
         \A l \in Links : link'[l].state # "gone" => link[l].state # "gone",
         \A t \in Tabs : tab'[t].link \in {tab[t].link, Nobody}
  PROVE  LinkInv'
BY Sentinel DEF LinkInv

\* Sessions end, or are new.
SessionsOnlyGo ==
  /\ minted' \in {minted, minted + 1}
  /\ \A s \in SessionIds : s <= minted => session'[s] \in {session[s], Nobody}

LEMMA BoundStays ==
  ASSUME SignInTypes, SessionsOnlyGo, NEW f, Bound(f)
  PROVE  /\ f.session \in SessionIds /\ f.session <= minted'
         /\ session'[f.session] \in {f.starter, Nobody}
<1>1. minted \in Nat /\ f.session \in Nat
  BY Sentinel DEF SignInTypes, RowTypes, Bound, SessionIds
<1>. QED BY <1>1 DEF Bound, SessionsOnlyGo

\* What FlowInv says of a request.
FlowOk(r) ==
  /\ r.step \in {"provider", "connect"} =>
       /\ r.nonce.session \in SessionIds /\ r.nonce.session <= minted
       /\ session[r.nonce.session] \in {r.nonce.starter, Nobody}
  /\ r.step = "provider" => r.creates.exists = FALSE
  /\ r.step = "connect" =>
       /\ r.account = r.nonce.starter /\ r.account \in Users
       /\ r.identity \in Identities

LEMMA FlowsStand ==
  ASSUME SignInTypes, FlowInv, SessionsOnlyGo,
         \A n \in Nonces : nonce'[n].state = "live" => nonce'[n] = nonce[n] \/ Bound(nonce[n])',
         \A t \in Tabs : tab'[t] = tab[t] \/ FlowOk(tab[t])'
  PROVE  FlowInv'
<1>1. ASSUME NEW n \in Nonces, nonce'[n].state = "live" PROVE Bound(nonce[n])'
  <2>1. CASE nonce'[n] = nonce[n]
    <3>1. Bound(nonce[n])
      BY <1>1, <2>1 DEF FlowInv
    <3>. QED BY <2>1, <3>1, BoundStays DEF Bound
  <2>. QED BY <1>1, <2>1
<1>2. ASSUME NEW t \in Tabs PROVE FlowOk(tab[t])'
  <2>1. CASE tab'[t] = tab[t]
    <3>1. tab[t].step \in {"provider", "connect"} => Bound(tab[t].nonce)
      BY DEF FlowInv
    <3>. QED BY <2>1, <3>1, BoundStays DEF FlowInv, FlowOk
  <2>2. CASE FlowOk(tab[t])'
    BY <2>2
  <2>. QED BY <2>1, <2>2
<1>. QED BY <1>1, <1>2 DEF FlowInv, FlowOk, Bound

\* No request comes to hold another identity to insert, and identities that are
\* somebody's stay.
PendingStays ==
  \A t \in Pending' :
    tab'[t].identity = Nobody
      \/ (t \in Pending /\ tab'[t].identity = tab[t].identity)

LEMMA PendingStand ==
  ASSUME PendingInv, PendingStays, UNCHANGED identity
  PROVE  PendingInv'
<1>1. SUFFICES ASSUME NEW t \in Pending', tab'[t].identity # Nobody
               PROVE  /\ identity'[tab'[t].identity] = Nobody
                      /\ \A u \in Pending' : u # t => tab'[u].identity # tab'[t].identity
  BY DEF PendingInv
<1>2. t \in Pending /\ tab'[t].identity = tab[t].identity
  BY <1>1 DEF PendingStays
<1>3. \A u \in Pending' : u # t => tab'[u].identity = Nobody
                                   \/ (u \in Pending /\ tab'[u].identity = tab[u].identity)
  BY DEF PendingStays
<1>. QED BY <1>1, <1>2, <1>3 DEF PendingInv

LEMMA ReportsStand ==
  ASSUME ReportInv, UNCHANGED connected,
         \A i \in Identities : identity[i] \in Users => identity'[i] = identity[i]
  PROVE  ReportInv'
BY DEF ReportInv

----------------------------------------------------------------------------
(* Steps that move one request.                                             *)

\* What a request becomes may hold only what it held before.
HoldsNoMore(t, r) ==
  /\ r.link \in {tab[t].link, Nobody}
  /\ r.step \in {"look", "signin"} /\ r.creates.exists =>
       r.identity = Nobody \/ (t \in Pending /\ r.identity = tab[t].identity)

LEMMA HeldIsLess ==
  ASSUME SignInTypes, NEW t \in Tabs, NEW r \in TabType, TabGoes(t, r), HoldsNoMore(t, r)
  PROVE  /\ \A u \in Tabs : tab'[u].link \in {tab[u].link, Nobody}
         /\ PendingStays
<1>1. tab'[t] = r /\ \A u \in Tabs : u # t => tab'[u] = tab[u]
  BY OneTabMoves
<1>2. \A u \in Tabs : tab'[u].link \in {tab[u].link, Nobody}
  BY <1>1 DEF HoldsNoMore
<1>3. ASSUME NEW u \in Pending'
      PROVE  tab'[u].identity = Nobody
               \/ (u \in Pending /\ tab'[u].identity = tab[u].identity)
  <2>1. u \in Tabs /\ tab'[u].step \in {"look", "signin"} /\ tab'[u].creates.exists
    BY <1>3 DEF Pending
  <2>2. CASE u = t
    BY <1>1, <2>1, <2>2 DEF HoldsNoMore
  <2>3. CASE u # t
    BY <1>1, <2>1, <2>3 DEF Pending
  <2>. QED BY <2>2, <2>3
<1>. QED BY <1>2, <1>3 DEF PendingStays

LEMMA RequestMoves ==
  ASSUME SignInInv, NEW t \in Tabs, NEW r \in TabType, TabGoes(t, r), HoldsNoMore(t, r),
         FlowOk(r), sent' \in 0 .. MaxRequests,
         UNCHANGED <<account, session, minted, cookie, link, nonce, identity, owner, redeemed>>,
         connected' = connected \/ ReportInv'
  PROVE  SignInInv'
<1>. SignInTypes /\ LinkInv /\ FlowInv /\ PendingInv /\ ReportInv
  BY DEF SignInInv
<1>1. SignInTypes'
  BY TabTypes
<1>2. LinkInv'
  BY HeldIsLess, LinksStand
<1>3. FlowInv'
  <2>1. tab'[t] = r /\ \A u \in Tabs : u # t => tab'[u] = tab[u]
    BY OneTabMoves
  <2>2. ASSUME NEW u \in Tabs PROVE tab'[u] = tab[u] \/ FlowOk(tab[u])'
    BY <2>1 DEF FlowOk
  <2>3. SessionsOnlyGo
    BY DEF SessionsOnlyGo
  <2>. QED BY <2>2, <2>3, FlowsStand
<1>4. PendingInv'
  BY HeldIsLess, PendingStand
<1>5. ReportInv'
  BY ReportsStand DEF ReportInv
<1>. QED BY <1>1, <1>2, <1>3, <1>4, <1>5 DEF SignInInv

LEMMA NewRequest ==
  ASSUME SignInInv, NEW t \in Tabs, NEW r \in TabType, Sends(t, r),
         r.step \in {"insert", "look", "password"}, r.link = Nobody,
         r.step = "look" => ~ r.creates.exists,
         UNCHANGED <<account, session, minted, cookie, link, nonce, identity, owner, redeemed,
                     connected>>
  PROVE  SignInInv'
<1>1. sent' \in 0 .. MaxRequests /\ TabGoes(t, r)
  BY SentType DEF SignInInv
<1>2. HoldsNoMore(t, r) /\ FlowOk(r)
  BY DEF HoldsNoMore, FlowOk
<1>. QED BY <1>1, <1>2, RequestMoves

LEMMA RegisterStep ==
  ASSUME SignInInv, NEW t \in Tabs, NEW b \in Browsers, NEW a \in Users, NEW e \in Addresses,
         Register(t, b, a, e)
  PROVE  SignInInv'
<1>. DEFINE o == Open(b, "insert")
            n == [exists |-> TRUE, address |-> e, password |-> TRUE]
            r == [o EXCEPT !.account = a, !.creates = n]
<1>1. o \in TabType /\ o.step = "insert" /\ o.link = Nobody
  BY OpenType DEF SignInInv
<1>2. r \in TabType /\ r.step = "insert" /\ r.link = Nobody
  <2>1. n \in AccountType
    BY DEF AccountType
  <2>. HIDE DEF o, n
  <2>. QED BY <1>1, <2>1 DEF TabType
<1>3. Sends(t, r)
  BY DEF Register
<1>. HIDE DEF r
<1>. QED BY <1>2, <1>3, NewRequest DEF Register

LEMMA LoginStep ==
  ASSUME SignInInv, NEW t \in Tabs, NEW b \in Browsers, NEW a \in Users, Login(t, b, a)
  PROVE  SignInInv'
<1>. DEFINE o == Open(b, "look")
            r == [o EXCEPT !.account = a]
<1>1. o \in TabType /\ o.step = "look" /\ o.link = Nobody /\ o.creates.exists = FALSE
  BY OpenType DEF SignInInv
<1>2. r \in TabType /\ r.step = "look" /\ r.link = Nobody /\ r.creates.exists = FALSE
  <2>. HIDE DEF o
  <2>. QED BY <1>1 DEF TabType
<1>3. Sends(t, r)
  BY DEF Login
<1>. HIDE DEF r
<1>. QED BY <1>2, <1>3, NewRequest DEF Login

LEMMA BeginPasswordStep ==
  ASSUME SignInInv, NEW t \in Tabs, NEW b \in Browsers, BeginPassword(t, b)
  PROVE  SignInInv'
<1>. DEFINE o == Open(b, "password")
            r == [o EXCEPT !.account = Principal(b)]
<1>1. o \in TabType /\ o.step = "password" /\ o.link = Nobody
  BY OpenType DEF SignInInv
<1>2. Principal(b) \in Users
  BY DEF BeginPassword, IsRegistered
<1>3. r \in TabType /\ r.step = "password" /\ r.link = Nobody
  <2>. HIDE DEF o
  <2>. QED BY <1>1, <1>2 DEF TabType
<1>4. Sends(t, r)
  BY DEF BeginPassword
<1>. HIDE DEF r
<1>. QED BY <1>3, <1>4, NewRequest DEF BeginPassword

LEMMA LoseStep ==
  ASSUME SignInInv, NEW t \in Tabs, Lose(t)
  PROVE  SignInInv'
<1>1. TabGoes(t, Closed) /\ sent' \in 0 .. MaxRequests
  BY DEF Lose, SignInInv, SignInTypes, RowTypes
<1>2. HoldsNoMore(t, Closed) /\ FlowOk(Closed)
  BY ClosedType DEF HoldsNoMore, FlowOk
<1>. QED BY <1>1, <1>2, ClosedType, RequestMoves DEF Lose

LEMMA LookStep ==
  ASSUME SignInInv, NEW t \in Tabs, Look(t)
  PROVE  SignInInv'
<1>. DEFINE r == [tab[t] EXCEPT !.step = "signin", !.old = Lookup(tab[t].cookie)]
<1>1. tab[t] \in TabType /\ tab[t].step = "look" /\ Lookup(tab[t].cookie) \in Principals \cup {Nobody}
  BY LookupType DEF SignInInv, SignInTypes, FlowTypes, Look
<1>2. /\ r \in TabType /\ r.step = "signin" /\ r.link = tab[t].link
      /\ r.creates = tab[t].creates /\ r.identity = tab[t].identity
  BY <1>1 DEF TabType
<1>3. TabGoes(t, r) /\ sent' \in 0 .. MaxRequests
  BY DEF Look, SignInInv, SignInTypes, RowTypes
<1>. HIDE DEF r
<1>4. HoldsNoMore(t, r) /\ FlowOk(r)
  BY <1>1, <1>2 DEF HoldsNoMore, FlowOk, Pending
<1>. QED BY <1>2, <1>3, <1>4, RequestMoves DEF Look

LEMMA ConnectStep ==
  ASSUME SignInInv, NEW t \in Tabs, NEW i \in Identities, Connect(t, i)
  PROVE  SignInInv'
<1>. DEFINE target == ConnectTarget(t)
            f == [tab[t] EXCEPT !.step = "connect", !.account = target, !.identity = i]
            r == IF IsRegistered(target) /\ identity[i] = Nobody THEN f ELSE Closed
<1>1. tab[t] \in TabType /\ tab[t].step = "provider" /\ Bound(tab[t].nonce)
  BY DEF SignInInv, SignInTypes, FlowTypes, FlowInv, Connect
<1>2. IsRegistered(target) => target \in Users /\ target = tab[t].nonce.starter
  BY <1>1, LookupType, Sentinel DEF SignInInv, Bound, ConnectTarget, IsRegistered
<1>3. TabGoes(t, r) /\ sent' \in 0 .. MaxRequests
  BY DEF Connect, SignInInv, SignInTypes, RowTypes
<1>4. CASE IsRegistered(target) /\ identity[i] = Nobody
  <2>1. /\ f \in TabType /\ f.step = "connect" /\ f.link = tab[t].link /\ f.nonce = tab[t].nonce
        /\ f.account = target /\ f.identity = i
    <3>. HIDE DEF target
    <3>. QED BY <1>1, <1>2, <1>4 DEF TabType
  <2>2. r = f
    BY <1>4
  <2>. HIDE DEF f
  <2>3. HoldsNoMore(t, f)
    BY <2>1 DEF HoldsNoMore
  <2>4. FlowOk(f)
    BY <1>1, <1>2, <1>4, <2>1 DEF FlowOk, Bound
  <2>5. connected' = connected
    BY <1>2, <1>4, Sentinel DEF Connect, Reports
  <2>. QED BY <1>3, <2>1, <2>2, <2>3, <2>4, <2>5, RequestMoves DEF Connect
<1>5. CASE ~ (IsRegistered(target) /\ identity[i] = Nobody)
  <2>1. r = Closed
    BY <1>5
  <2>2. HoldsNoMore(t, Closed) /\ FlowOk(Closed)
    BY ClosedType DEF HoldsNoMore, FlowOk
  <2>3. ReportInv'
    <3>1. \A p \in connected' : p \in connected
                \/ (p = [identity |-> i, to |-> tab[t].nonce.starter] /\ IsRegistered(target)
                     /\ identity[i] = target)
      BY DEF Connect, Reports
    <3>2. identity' = identity
      BY DEF Connect
    <3>. QED BY <1>2, <3>1, <3>2 DEF ReportInv, SignInInv
  <2>. QED BY <1>3, <2>1, <2>2, <2>3, ClosedType, RequestMoves DEF Connect
<1>. QED BY <1>4, <1>5

LEMMA IdentifyStep ==
  ASSUME SignInInv, NEW t \in Tabs, NEW i \in Identities, NEW a \in Users,
         NEW e \in Addresses \cup {Nobody}, Identify(t, i, a, e)
  PROVE  SignInInv'
<1>. DEFINE k == [tab[t] EXCEPT !.step = "look", !.account = a]
            n == [exists |-> TRUE, address |-> IF Taken(e) THEN Nobody ELSE e, password |-> FALSE]
            m == [tab[t] EXCEPT !.step = "insert", !.account = a, !.identity = i, !.creates = n]
<1>1. tab[t] \in TabType /\ tab[t].step = "provider" /\ tab[t].creates.exists = FALSE
  BY DEF SignInInv, SignInTypes, FlowTypes, FlowInv, Identify
<1>2. /\ k \in TabType /\ k.step = "look" /\ k.link = tab[t].link
      /\ k.creates.exists = FALSE
  BY <1>1 DEF TabType
<1>3. n \in AccountType
  BY DEF AccountType
<1>4. m \in TabType /\ m.step = "insert" /\ m.link = tab[t].link
  <2>. HIDE DEF n
  <2>. QED BY <1>1, <1>3 DEF TabType
<1>5. sent' \in 0 .. MaxRequests
  BY DEF Identify, SignInInv, SignInTypes, RowTypes
<1>6. TabGoes(t, k) \/ TabGoes(t, m)
  BY DEF Identify
<1>. HIDE DEF k, m, n
<1>7. HoldsNoMore(t, k) /\ FlowOk(k) /\ HoldsNoMore(t, m) /\ FlowOk(m)
  BY <1>2, <1>4 DEF HoldsNoMore, FlowOk
<1>. QED BY <1>2, <1>4, <1>5, <1>6, <1>7, RequestMoves DEF Identify

LEMMA ClaimNonceStep ==
  ASSUME SignInInv, NEW t \in Tabs, NEW b \in Browsers, NEW n \in Nonces, ClaimNonce(t, b, n)
  PROVE  SignInInv'
<1>. SignInTypes /\ LinkInv /\ FlowInv /\ PendingInv /\ ReportInv
  BY DEF SignInInv
<1>. DEFINE o == Open(b, "provider")
            r == [o EXCEPT !.nonce = nonce[n]]
<1>1. nonce[n] \in NonceType /\ Bound(nonce[n])
  BY DEF FlowInv, SignInTypes, FlowTypes, ClaimNonce, Redeemable
<1>2. /\ o \in TabType /\ o.step = "provider" /\ o.link = Nobody /\ o.creates.exists = FALSE
  BY OpenType
<1>3. /\ r \in TabType /\ r.step = "provider" /\ r.link = Nobody /\ r.creates.exists = FALSE
      /\ r.nonce = nonce[n]
  <2>. HIDE DEF o
  <2>. QED BY <1>1, <1>2 DEF TabType
<1>4. TabGoes(t, r) /\ sent' \in 0 .. MaxRequests
  BY SentType DEF ClaimNonce
<1>. HIDE DEF r
<1>5. HoldsNoMore(t, r) /\ FlowOk(r)
  BY <1>1, <1>3 DEF HoldsNoMore, FlowOk, Bound
<1>6. tab' \in [Tabs -> TabType] /\ tab'[t] = r /\ \A u \in Tabs : u # t => tab'[u] = tab[u]
  BY <1>3, <1>4, OneTabMoves
<1>7. \A u \in Tabs : tab'[u].link \in {tab[u].link, Nobody}
  BY <1>3, <1>4, <1>5, HeldIsLess
<1>8. PendingStays
  BY <1>3, <1>4, <1>5, HeldIsLess
<1>9. /\ nonce' \in [Nonces -> NonceType] /\ \A p \in Nonces : nonce'[p].session <= minted
      /\ \A p \in Nonces : nonce'[p].state = "live" => nonce'[p] = nonce[p]
  <2>1. nonce' = [nonce EXCEPT ![n] = GoneNonce]
    BY DEF ClaimNonce
  <2>2. nonce \in [Nonces -> NonceType] /\ \A p \in Nonces : nonce[p].session <= minted
    BY DEF SignInTypes, FlowTypes
  <2>3. minted \in Nat
    BY Sentinel DEF SignInTypes, RowTypes
  <2>. QED BY <2>1, <2>2, <2>3, ConstantTypes
<1>10. SignInTypes'
  BY <1>4, <1>6, <1>9 DEF SignInTypes, RowTypes, FlowTypes, ClaimNonce
<1>11. LinkInv'
  BY <1>7, LinksStand DEF ClaimNonce
<1>12. FlowInv'
  <2>1. ASSUME NEW u \in Tabs PROVE tab'[u] = tab[u] \/ FlowOk(tab[u])'
    BY <1>5, <1>6 DEF FlowOk, ClaimNonce
  <2>2. SessionsOnlyGo
    BY DEF SessionsOnlyGo, ClaimNonce
  <2>. QED BY <1>9, <2>1, <2>2, FlowsStand
<1>13. PendingInv' /\ ReportInv'
  BY <1>8, PendingStand, ReportsStand DEF ClaimNonce
<1>. QED BY <1>10, <1>11, <1>12, <1>13 DEF SignInInv

----------------------------------------------------------------------------
(* Steps that move no request.                                              *)

TabsOnlyClose == \A t \in Tabs : tab'[t] \in {tab[t], Closed}

LEMMA RowsMove ==
  ASSUME SignInInv, SignInTypes', SessionsOnlyGo, TabsOnlyClose,
         UNCHANGED <<identity, connected, redeemed>>,
         \A l \in Links : link'[l].state # "gone" => link[l].state # "gone",
         \A n \in Nonces : nonce'[n].state = "live" => nonce'[n] = nonce[n] \/ Bound(nonce[n])'
  PROVE  SignInInv'
<1>. SignInTypes /\ LinkInv /\ FlowInv /\ PendingInv /\ ReportInv
  BY DEF SignInInv
<1>1. LinkInv'
  <2>1. \A t \in Tabs : tab'[t].link \in {tab[t].link, Nobody}
    BY ClosedType DEF TabsOnlyClose
  <2>. QED BY <2>1, LinksStand
<1>2. FlowInv'
  <2>1. ASSUME NEW t \in Tabs PROVE tab'[t] = tab[t] \/ FlowOk(tab[t])'
    <3>1. CASE tab'[t] = Closed
      BY <3>1, ClosedType DEF FlowOk
    <3>. QED BY <3>1 DEF TabsOnlyClose
  <2>. QED BY <2>1, FlowsStand
<1>3. PendingInv'
  <2>1. ASSUME NEW t \in Pending'
        PROVE  t \in Pending /\ tab'[t].identity = tab[t].identity
    <3>1. t \in Tabs /\ tab'[t].step \in {"look", "signin"} /\ tab'[t].creates.exists
      BY DEF Pending
    <3>2. tab'[t] = tab[t]
      BY <3>1, ClosedType DEF TabsOnlyClose
    <3>. QED BY <3>1, <3>2 DEF Pending
  <2>2. PendingStays
    BY <2>1 DEF PendingStays
  <2>. QED BY <2>2, PendingStand
<1>4. ReportInv'
  BY ReportsStand
<1>. QED BY <1>1, <1>2, <1>3, <1>4 DEF SignInInv

\* The sessions of a set end, and the flows started under them.
LEMMA SessionsEnd ==
  ASSUME SignInInv, NEW retired,
         session' \in [SessionIds -> Principals \cup {Nobody}],
         \A s \in SessionIds : session'[s] \in {session[s], Nobody},
         nonce' = WithoutNoncesOf(retired),
         account' \in [Users -> AccountType],
         link' \in [Links -> LinkType],
         \A l \in Links : link'[l].state # "gone" => link[l].state # "gone",
         cookie' \in [Browsers -> 0 .. MaxSessions], \A b \in Browsers : cookie'[b] <= minted,
         tab' \in [Tabs -> TabType], TabsOnlyClose,
         UNCHANGED <<sent, minted, identity, owner, redeemed, connected>>
  PROVE  SignInInv'
<1>1. /\ nonce' \in [Nonces -> NonceType] /\ \A n \in Nonces : nonce'[n].session <= minted
      /\ \A n \in Nonces : nonce'[n].state = "live" => nonce'[n] = nonce[n]
  BY NoncesGo DEF SignInInv
<1>2. SignInTypes'
  BY <1>1 DEF SignInInv, SignInTypes, RowTypes, FlowTypes
<1>3. SessionsOnlyGo
  BY DEF SessionsOnlyGo
<1>. QED BY <1>1, <1>2, <1>3, RowsMove

LEMMA TabsStay ==
  ASSUME SignInInv, UNCHANGED tab
  PROVE  TabsOnlyClose /\ tab' \in [Tabs -> TabType]
BY DEF TabsOnlyClose, SignInInv, SignInTypes, FlowTypes

LEMMA LogoutStep ==
  ASSUME SignInInv, NEW b \in Browsers, Logout(b)
  PROVE  SignInInv'
<1>1. /\ cookie' \in [Browsers -> 0 .. MaxSessions] /\ \A c \in Browsers : cookie'[c] <= minted
      /\ minted \in Nat
  <2>1. cookie' = [cookie EXCEPT ![b] = 0]
    BY DEF Logout
  <2>2. /\ cookie \in [Browsers -> 0 .. MaxSessions] /\ \A c \in Browsers : cookie[c] <= minted
        /\ minted \in Nat
    BY Sentinel DEF SignInInv, SignInTypes, RowTypes, FlowTypes
  <2>. QED BY <2>1, <2>2, Sentinel
<1>2. session \in [SessionIds -> Principals \cup {Nobody}]
  BY DEF SignInInv, SignInTypes, RowTypes
<1>3. CASE Principal(b) = Nobody
  <2>1. SessionsOnlyGo /\ SignInTypes'
    BY <1>1, <1>3 DEF Logout, SessionsOnlyGo, SignInInv, SignInTypes, RowTypes, FlowTypes
  <2>. QED BY <1>3, <2>1, TabsStay, RowsMove DEF Logout
<1>4. CASE Principal(b) # Nobody
  <2>1. /\ session' \in [SessionIds -> Principals \cup {Nobody}]
        /\ \A s \in SessionIds : session'[s] \in {session[s], Nobody}
    BY <1>2, <1>4 DEF Logout
  <2>2. account' \in [Users -> AccountType] /\ link' \in [Links -> LinkType]
    BY DEF Logout, SignInInv, SignInTypes, RowTypes
  <2>. QED BY <1>1, <1>4, <2>1, <2>2, TabsStay, SessionsEnd DEF Logout
<1>. QED BY <1>3, <1>4

LEMMA ExpireStep ==
  ASSUME SignInInv, NEW s \in SessionIds, Expire(s)
  PROVE  SignInInv'
<1>1. session \in [SessionIds -> Principals \cup {Nobody}]
  BY DEF SignInInv, SignInTypes, RowTypes
<1>2. /\ session' \in [SessionIds -> Principals \cup {Nobody}]
      /\ \A z \in SessionIds : session'[z] \in {session[z], Nobody}
  BY <1>1 DEF Expire
<1>3. /\ account' \in [Users -> AccountType] /\ link' \in [Links -> LinkType]
      /\ cookie' \in [Browsers -> 0 .. MaxSessions] /\ \A b \in Browsers : cookie'[b] <= minted
  BY DEF Expire, SignInInv, SignInTypes, RowTypes, FlowTypes
<1>. QED BY <1>2, <1>3, TabsStay, SessionsEnd DEF Expire

LEMMA SetPasswordStep ==
  ASSUME SignInInv, NEW t \in Tabs, SetPassword(t)
  PROVE  SignInInv'
<1>. SignInTypes
  BY DEF SignInInv
<1>. DEFINE a == tab[t].account
            others == {s \in SessionIds \ {tab[t].cookie} : session[s] = a}
<1>1. /\ account' = [account EXCEPT ![a].password = TRUE]
      /\ session' = [s \in SessionIds |-> IF s \in others THEN Nobody ELSE session[s]]
      /\ nonce' = WithoutNoncesOf(others)
      /\ link' = [l \in Links |-> IF link[l].account = a THEN GoneLink ELSE link[l]]
      /\ TabGoes(t, Closed)
      /\ UNCHANGED <<sent, minted, cookie, identity, owner, redeemed, connected>>
  BY DEF SetPassword
<1>. HIDE DEF others, a
<1>2. account' \in [Users -> AccountType]
  <2>1. account \in [Users -> AccountType]
    BY DEF SignInTypes, RowTypes
  <2>2. \A r \in AccountType : [r EXCEPT !.password = TRUE] \in AccountType
    BY DEF AccountType
  <2>. QED BY <1>1, <2>1, <2>2
<1>3. /\ session' \in [SessionIds -> Principals \cup {Nobody}]
      /\ \A s \in SessionIds : session'[s] \in {session[s], Nobody}
  BY <1>1 DEF SignInTypes, RowTypes
<1>4. /\ link' \in [Links -> LinkType]
      /\ \A l \in Links : link'[l].state # "gone" => link[l].state # "gone"
  BY <1>1, ConstantTypes DEF SignInTypes, RowTypes
<1>5. cookie' \in [Browsers -> 0 .. MaxSessions] /\ \A b \in Browsers : cookie'[b] <= minted
  BY <1>1 DEF SignInTypes, FlowTypes
<1>6. tab' \in [Tabs -> TabType] /\ TabsOnlyClose
  BY <1>1, ClosedType, OneTabMoves DEF TabsOnlyClose
<1>. QED BY <1>1, <1>2, <1>3, <1>4, <1>5, <1>6, SessionsEnd

LEMMA RequestLinkStep ==
  ASSUME SignInInv, NEW l \in Links, NEW a \in Users, RequestLink(a, l)
  PROVE  SignInInv'
<1>1. link' = [k \in Links |-> IF k = l THEN [state |-> "live", account |-> a]
                               ELSE IF link[k].account = a THEN GoneLink
                               ELSE link[k]]
  BY DEF RequestLink
<1>2. link \in [Links -> LinkType] /\ link[l].state = "new"
  BY DEF RequestLink, SignInInv, SignInTypes, RowTypes
<1>3. [state |-> "live", account |-> a] \in LinkType
  BY DEF LinkType
<1>4. /\ link' \in [Links -> LinkType]
      /\ \A k \in Links : link'[k].state # "gone" => link[k].state # "gone"
  BY <1>1, <1>2, <1>3, ConstantTypes
<1>5. SignInTypes' /\ SessionsOnlyGo
  BY <1>4 DEF RequestLink, SessionsOnlyGo, SignInInv, SignInTypes, RowTypes, FlowTypes
<1>. QED BY <1>4, <1>5, TabsStay, RowsMove DEF RequestLink

\* Whoever the cookie names after a visitor was met is the session's principal.
LEMMA Met ==
  ASSUME SignInInv, NEW b \in Browsers,
         IF Principal(b) = Nobody THEN Mint(b) ELSE UNCHANGED <<session, minted, cookie>>
  PROVE  /\ minted' \in 0 .. MaxSessions
         /\ session' \in [SessionIds -> Principals \cup {Nobody}]
         /\ cookie' \in [Browsers -> 0 .. MaxSessions] /\ \A c \in Browsers : cookie'[c] <= minted'
         /\ cookie'[b] \in SessionIds /\ session'[cookie'[b]] \in Principals
         /\ SessionsOnlyGo /\ minted <= minted'
<1>. SignInTypes
  BY DEF SignInInv
<1>1. minted \in Nat
  BY Sentinel DEF SignInTypes, RowTypes
<1>2. CASE Principal(b) = Nobody
  <2>1. Mint(b)
    BY <1>2
  <2>2. /\ minted' \in 0 .. MaxSessions /\ minted' = minted + 1 /\ minted' \in SessionIds
        /\ session' \in [SessionIds -> Principals \cup {Nobody}]
        /\ session'[minted'] = minted'
        /\ \A s \in SessionIds : s # minted' => session'[s] = session[s]
        /\ cookie' \in [Browsers -> 0 .. MaxSessions] /\ cookie'[b] = minted'
        /\ \A c \in Browsers : cookie'[c] <= minted'
    BY <2>1, MintTypes
  <2>3. minted' \in Principals /\ minted <= minted' /\ \A s \in SessionIds : s <= minted => s # minted'
    BY <1>1, <2>2 DEF Principals, SessionIds
  <2>. QED BY <2>2, <2>3 DEF SessionsOnlyGo
<1>3. CASE Principal(b) # Nobody
  <2>1. cookie[b] \in SessionIds /\ session[cookie[b]] \in Principals
    BY <1>3, LookupType DEF Principal
  <2>. QED BY <1>1, <1>3, <2>1 DEF SessionsOnlyGo, SignInTypes, RowTypes, FlowTypes
<1>. QED BY <1>2, <1>3

LEMMA ConverseStep ==
  ASSUME SignInInv, NEW b \in Browsers, NEW c \in Conversations, Converse(b, c)
  PROVE  SignInInv'
<1>1. /\ minted' \in 0 .. MaxSessions
      /\ session' \in [SessionIds -> Principals \cup {Nobody}]
      /\ cookie' \in [Browsers -> 0 .. MaxSessions] /\ \A x \in Browsers : cookie'[x] <= minted'
      /\ session'[cookie'[b]] \in Principals
      /\ SessionsOnlyGo /\ minted <= minted'
  BY Met DEF Converse
<1>2. owner' \in [Conversations -> Principals \cup {Nobody}]
  <2>1. owner \in [Conversations -> Principals \cup {Nobody}]
    BY DEF SignInInv, SignInTypes, RowTypes
  <2>2. owner' = [owner EXCEPT ![c] = session'[cookie'[b]]]
    BY DEF Converse
  <2>. QED BY <1>1, <2>1, <2>2
<1>3. \A n \in Nonces : nonce'[n].session <= minted'
  <2>1. minted \in Nat /\ minted' \in Nat /\ \A n \in Nonces : nonce[n].session \in Nat
    BY <1>1, Sentinel DEF SignInInv, SignInTypes, RowTypes, FlowTypes, NonceType
  <2>. QED BY <1>1, <2>1 DEF Converse, SignInInv, SignInTypes, FlowTypes
<1>4. SignInTypes'
  BY <1>1, <1>2, <1>3 DEF Converse, SignInInv, SignInTypes, RowTypes, FlowTypes
<1>. QED BY <1>1, <1>4, TabsStay, RowsMove DEF Converse

\* A flow is started under the session the browser has now.
LEMMA FlowStarts ==
  ASSUME SignInInv, NEW n \in Nonces, NEW s \in SessionIds, NEW intent \in {"login", "connect"},
         nonce' = [nonce EXCEPT ![n] = Nonce("live", s, intent, session'[s])],
         minted' \in 0 .. MaxSessions, minted <= minted', s <= minted',
         session' \in [SessionIds -> Principals \cup {Nobody}],
         cookie' \in [Browsers -> 0 .. MaxSessions],
         \A c \in Browsers : cookie'[c] <= minted',
         SessionsOnlyGo,
         UNCHANGED <<sent, account, link, identity, owner, tab, redeemed, connected>>
  PROVE  SignInInv'
<1>. DEFINE f == Nonce("live", s, intent, session'[s])
<1>1. /\ f \in NonceType /\ f.session = s /\ f.starter = session'[s]
  BY DEF Nonce, NonceType, SessionIds
<1>2. minted \in Nat /\ minted' \in Nat /\ \A p \in Nonces : nonce[p].session \in Nat
  BY Sentinel DEF SignInInv, SignInTypes, RowTypes, FlowTypes, NonceType
<1>3. nonce \in [Nonces -> NonceType] /\ \A p \in Nonces : nonce[p].session <= minted
  BY DEF SignInInv, SignInTypes, FlowTypes
<1>. HIDE DEF f
<1>4. nonce' = [nonce EXCEPT ![n] = f]
  BY DEF f
<1>5. \A p \in Nonces : nonce'[p] = nonce[p] \/ nonce'[p] = f
  BY <1>3, <1>4
<1>6. nonce' \in [Nonces -> NonceType]
  BY <1>1, <1>3, <1>4
<1>7. \A p \in Nonces : nonce'[p].session <= minted'
  BY <1>1, <1>2, <1>3, <1>5
<1>8. SignInTypes'
  BY <1>6, <1>7 DEF SignInInv, SignInTypes, RowTypes, FlowTypes
<1>9. ASSUME NEW p \in Nonces PROVE nonce'[p] = nonce[p] \/ Bound(nonce[p])'
  BY <1>1, <1>5 DEF Bound
<1>. QED BY <1>8, <1>9, TabsStay, RowsMove

LEMMA StartLoginStep ==
  ASSUME SignInInv, NEW b \in Browsers, NEW n \in Nonces, StartLogin(b, n)
  PROVE  SignInInv'
<1>1. /\ minted' \in 0 .. MaxSessions
      /\ session' \in [SessionIds -> Principals \cup {Nobody}]
      /\ cookie' \in [Browsers -> 0 .. MaxSessions] /\ \A x \in Browsers : cookie'[x] <= minted'
      /\ cookie'[b] \in SessionIds
      /\ SessionsOnlyGo /\ minted <= minted'
  BY Met DEF StartLogin
<1>2. nonce' = [nonce EXCEPT ![n] = Nonce("live", cookie'[b], "login", session'[cookie'[b]])]
  BY DEF StartLogin, StartFlow
<1>. QED BY <1>1, <1>2, FlowStarts DEF StartLogin

LEMMA StartConnectStep ==
  ASSUME SignInInv, NEW b \in Browsers, NEW n \in Nonces, StartConnect(b, n)
  PROVE  SignInInv'
<1>1. /\ minted' \in 0 .. MaxSessions /\ minted \in Nat
      /\ session' \in [SessionIds -> Principals \cup {Nobody}]
      /\ cookie' \in [Browsers -> 0 .. MaxSessions] /\ \A x \in Browsers : cookie'[x] <= minted'
      /\ minted <= minted'
  BY Sentinel DEF StartConnect, SignInInv, SignInTypes, RowTypes, FlowTypes
<1>2. cookie[b] \in SessionIds
  BY LookupType, Sentinel DEF StartConnect, SignInInv, Principal, IsRegistered
<1>3. nonce' = [nonce EXCEPT ![n] = Nonce("live", cookie[b], "connect", session'[cookie[b]])]
  BY DEF StartConnect, StartFlow
<1>4. SessionsOnlyGo /\ cookie[b] <= minted'
  BY <1>1 DEF StartConnect, SessionsOnlyGo
<1>. QED BY <1>1, <1>2, <1>3, <1>4, FlowStarts DEF StartConnect

----------------------------------------------------------------------------
(* Steps that race.                                                         *)

LEMMA ClaimLinkStep ==
  ASSUME SignInInv, NEW t \in Tabs, NEW b \in Browsers, NEW l \in Links, ClaimLink(t, b, l)
  PROVE  SignInInv'
<1>. SignInTypes /\ LinkInv /\ FlowInv /\ PendingInv /\ ReportInv
  BY DEF SignInInv
<1>. DEFINE o == Open(b, "look")
            r == [o EXCEPT !.account = link[l].account, !.link = l]
<1>1. link[l].state = "live" /\ link[l] \in LinkType
  BY DEF ClaimLink, SignInTypes, RowTypes
<1>2. o \in TabType /\ o.step = "look" /\ o.link = Nobody /\ o.creates.exists = FALSE
  BY OpenType
<1>3. r \in TabType /\ r.step = "look" /\ r.link = l /\ r.creates.exists = FALSE
  <2>. HIDE DEF o
  <2>. QED BY <1>1, <1>2 DEF TabType, LinkType
<1>4. tab[t].step = "closed" /\ TabGoes(t, r) /\ sent' \in 0 .. MaxRequests
  BY SentType DEF ClaimLink
<1>. HIDE DEF r
<1>5. tab' \in [Tabs -> TabType] /\ tab'[t] = r /\ \A u \in Tabs : u # t => tab'[u] = tab[u]
  BY <1>3, <1>4, OneTabMoves
<1>6. /\ link' \in [Links -> LinkType] /\ link'[l].state = "gone"
      /\ \A k \in Links : k # l => link'[k] = link[k]
  <2>1. link \in [Links -> LinkType] /\ link' = [link EXCEPT ![l] = GoneLink]
    BY DEF ClaimLink, SignInTypes, RowTypes
  <2>. QED BY <2>1, ConstantTypes
<1>7. SignInTypes'
  BY <1>4, <1>5, <1>6 DEF ClaimLink, SignInTypes, RowTypes, FlowTypes
<1>8. LinkInv'
  <2>1. redeemed[l] = 0 /\ \A u \in Tabs : tab[u].link # l
    BY <1>1 DEF LinkInv
  <2>2. ASSUME NEW k \in Links
        PROVE  /\ redeemed[k] \in {0, 1}
               /\ link'[k].state # "gone" => redeemed[k] = 0 /\ \A u \in Tabs : tab'[u].link # k
               /\ \A u \in Tabs : tab'[u].link = k => redeemed[k] = 0
               /\ \A u, v \in Tabs : tab'[u].link = k /\ tab'[v].link = k => u = v
    <3>1. CASE k = l
      <4>1. \A u \in Tabs : tab'[u].link = k => u = t
        BY <1>5, <2>1, <3>1
      <4>. QED BY <1>6, <2>1, <3>1, <4>1
    <3>2. CASE k # l
      <4>1. \A u \in Tabs : tab'[u].link = k => tab[u].link = k
        BY <1>3, <1>5, <3>2
      <4>2. link'[k] = link[k]
        BY <1>6, <3>2
      <4>. QED BY <4>1, <4>2 DEF LinkInv
    <3>. QED BY <3>1, <3>2
  <2>3. redeemed' = redeemed
    BY DEF ClaimLink
  <2>. QED BY <2>2, <2>3 DEF LinkInv
<1>9. FlowInv'
  <2>1. ASSUME NEW u \in Tabs PROVE tab'[u] = tab[u] \/ FlowOk(tab[u])'
    BY <1>3, <1>5 DEF FlowOk
  <2>2. SessionsOnlyGo
    BY DEF SessionsOnlyGo, ClaimLink
  <2>. QED BY <2>1, <2>2, FlowsStand DEF ClaimLink
<1>10. PendingInv'
  <2>1. ASSUME NEW u \in Pending' PROVE u \in Pending /\ tab'[u] = tab[u]
    <3>1. u \in Tabs /\ tab'[u].step \in {"look", "signin"} /\ tab'[u].creates.exists
      BY DEF Pending
    <3>2. u # t
      BY <1>3, <1>5, <3>1
    <3>. QED BY <1>5, <3>1, <3>2 DEF Pending
  <2>2. PendingStays
    BY <2>1 DEF PendingStays
  <2>. QED BY <2>2, PendingStand DEF ClaimLink
<1>11. ReportInv'
  BY ReportsStand DEF ClaimLink
<1>. QED BY <1>7, <1>8, <1>9, <1>10, <1>11 DEF SignInInv

\* The insert of an identity waits for the requests that are inserting it.
LEMMA InsertIdentityStep ==
  ASSUME SignInInv, NEW t \in Tabs, InsertIdentity(t)
  PROVE  SignInInv'
<1>. SignInTypes /\ LinkInv /\ FlowInv /\ PendingInv /\ ReportInv
  BY DEF SignInInv
<1>. DEFINE i == tab[t].identity
            a == tab[t].account
<1>1. /\ tab[t].step = "connect" /\ i \in Identities /\ a \in Users
      /\ a = tab[t].nonce.starter
  BY DEF FlowInv, InsertIdentity
<1>2. /\ identity' = [identity EXCEPT ![i] = IF identity[i] = Nobody THEN a ELSE identity[i]]
      /\ identity \in [Identities -> Users \cup {Nobody}]
  BY DEF InsertIdentity, SignInTypes, RowTypes
<1>3. /\ identity' \in [Identities -> Users \cup {Nobody}]
      /\ \A j \in Identities : j # i => identity'[j] = identity[j]
      /\ \A j \in Identities : identity[j] # Nobody => identity'[j] = identity[j]
  BY <1>1, <1>2
<1>4. TabGoes(t, Closed)
  BY DEF InsertIdentity
<1>5. tab' \in [Tabs -> TabType] /\ tab'[t] = Closed /\ \A u \in Tabs : u # t => tab'[u] = tab[u]
  BY <1>4, ClosedType, OneTabMoves
<1>6. SignInTypes'
  BY <1>3, <1>5 DEF InsertIdentity, SignInTypes, RowTypes, FlowTypes
<1>7. LinkInv'
  BY <1>5, ClosedType, LinksStand DEF InsertIdentity
<1>8. FlowInv'
  <2>1. ASSUME NEW u \in Tabs PROVE tab'[u] = tab[u] \/ FlowOk(tab[u])'
    BY <1>5, ClosedType DEF FlowOk
  <2>2. SessionsOnlyGo
    BY DEF SessionsOnlyGo, InsertIdentity
  <2>. QED BY <2>1, <2>2, FlowsStand DEF InsertIdentity
<1>9. PendingInv'
  <2>1. ASSUME NEW u \in Pending' PROVE u \in Pending /\ tab'[u] = tab[u]
    <3>1. u \in Tabs /\ tab'[u].step \in {"look", "signin"} /\ tab'[u].creates.exists
      BY DEF Pending
    <3>2. u # t
      BY <1>5, <3>1, ClosedType
    <3>. QED BY <1>5, <3>1, <3>2 DEF Pending
  <2>2. \A u \in Pending : tab[u].identity # i
    BY DEF InsertIdentity
  <2>3. ASSUME NEW u \in Pending', tab'[u].identity # Nobody
        PROVE  /\ identity'[tab'[u].identity] = Nobody
               /\ \A v \in Pending' : v # u => tab'[v].identity # tab'[u].identity
    <3>1. tab[u].identity \in Identities /\ tab[u].identity # i
      BY <2>1, <2>2, <2>3 DEF SignInTypes, FlowTypes, TabType, Pending
    <3>2. identity'[tab[u].identity] = identity[tab[u].identity]
      BY <1>3, <3>1
    <3>. QED BY <2>1, <2>3, <3>2 DEF PendingInv
  <2>. QED BY <2>3 DEF PendingInv
<1>10. ReportInv'
  <2>1. \A p \in connected' : p \in connected
               \/ (p = [identity |-> i, to |-> a] /\ identity'[i] = a)
    BY <1>1 DEF InsertIdentity, Reports
  <2>2. ASSUME NEW p \in connected'
        PROVE  p.identity \in Identities /\ p.to \in Users /\ identity'[p.identity] = p.to
    <3>1. CASE p \in connected
      BY <1>3, <3>1, Sentinel DEF ReportInv
    <3>2. CASE p = [identity |-> i, to |-> a] /\ identity'[i] = a
      BY <1>1, <3>2
    <3>. QED BY <2>1, <3>1, <3>2
  <2>. QED BY <2>2 DEF ReportInv
<1>. QED BY <1>6, <1>7, <1>8, <1>9, <1>10 DEF SignInInv

LEMMA InsertAccountStep ==
  ASSUME SignInInv, NEW t \in Tabs, InsertAccount(t)
  PROVE  SignInInv'
<1>. SignInTypes /\ LinkInv /\ FlowInv /\ PendingInv /\ ReportInv
  BY DEF SignInInv
<1>. DEFINE i == tab[t].identity
            known == [tab[t] EXCEPT !.step = "look", !.account = identity[i],
                                    !.creates = NoAccount, !.identity = Nobody]
            first == [tab[t] EXCEPT !.step = "look"]
<1>1. tab[t] \in TabType /\ tab[t].step = "insert" /\ sent' \in 0 .. MaxRequests
  BY DEF InsertAccount, SignInTypes, RowTypes, FlowTypes
<1>2. i \in Identities \cup {Nobody}
  BY <1>1 DEF TabType
<1>3. CASE TabGoes(t, Closed)
  <2>1. HoldsNoMore(t, Closed) /\ FlowOk(Closed)
    BY ClosedType DEF HoldsNoMore, FlowOk
  <2>. QED BY <1>1, <1>3, <2>1, ClosedType, RequestMoves DEF InsertAccount
<1>4. CASE TabGoes(t, known) /\ i # Nobody
  <2>1. identity[i] \in Users \cup {Nobody}
    BY <1>2, <1>4 DEF SignInTypes, RowTypes
  <2>2. /\ known \in TabType /\ known.step = "look" /\ known.link = tab[t].link
        /\ known.creates.exists = FALSE
    BY <1>1, <2>1, ConstantTypes DEF TabType
  <2>. HIDE DEF known
  <2>3. HoldsNoMore(t, known) /\ FlowOk(known)
    BY <2>2 DEF HoldsNoMore, FlowOk
  <2>. QED BY <1>1, <1>4, <2>2, <2>3, RequestMoves DEF InsertAccount
<1>5. CASE TabGoes(t, first) /\ (i = Nobody \/ identity[i] = Nobody)
  <2>1. /\ first \in TabType /\ first.step = "look" /\ first.link = tab[t].link
        /\ first.identity = i /\ first.creates = tab[t].creates
    BY <1>1 DEF TabType
  <2>. HIDE DEF first
  <2>2. CASE i = Nobody
    <3>1. HoldsNoMore(t, first) /\ FlowOk(first)
      BY <2>1, <2>2 DEF HoldsNoMore, FlowOk
    <3>. QED BY <1>1, <1>5, <2>1, <3>1, RequestMoves DEF InsertAccount
  <2>3. CASE i # Nobody
    <3>1. tab' \in [Tabs -> TabType] /\ tab'[t] = first /\ \A u \in Tabs : u # t => tab'[u] = tab[u]
      BY <1>5, <2>1, OneTabMoves
    <3>2. SignInTypes'
      BY <1>1, <1>5, <2>1, TabTypes DEF InsertAccount
    <3>3. LinkInv'
      BY <2>1, <3>1, LinksStand DEF InsertAccount
    <3>4. FlowInv'
      <4>1. ASSUME NEW u \in Tabs PROVE tab'[u] = tab[u] \/ FlowOk(tab[u])'
        BY <2>1, <3>1 DEF FlowOk
      <4>2. SessionsOnlyGo
        BY DEF SessionsOnlyGo, InsertAccount
      <4>. QED BY <4>1, <4>2, FlowsStand DEF InsertAccount
    <3>5. PendingInv'
      <4>1. \A u \in Pending : tab[u].identity # i
        BY <2>3 DEF InsertAccount
      <4>2. ASSUME NEW u \in Pending', u # t PROVE u \in Pending /\ tab'[u] = tab[u]
        BY <3>1, <4>2 DEF Pending
      <4>3. identity' = identity /\ identity[i] = Nobody /\ tab'[t].identity = i
        BY <1>5, <2>1, <2>3, <3>1 DEF InsertAccount
      <4>4. ASSUME NEW u \in Pending', tab'[u].identity # Nobody
            PROVE  /\ identity[tab'[u].identity] = Nobody
                   /\ \A v \in Pending' : v # u => tab'[v].identity # tab'[u].identity
        <5>1. CASE u = t
          BY <4>1, <4>2, <4>3, <5>1
        <5>2. CASE u # t
          BY <4>1, <4>2, <4>3, <4>4, <5>2 DEF PendingInv
        <5>. QED BY <5>1, <5>2
      <4>. QED BY <4>3, <4>4 DEF PendingInv
    <3>6. ReportInv'
      BY ReportsStand DEF InsertAccount
    <3>. QED BY <3>2, <3>3, <3>4, <3>5, <3>6 DEF SignInInv
  <2>. QED BY <2>2, <2>3
<1>6. \/ TabGoes(t, Closed)
      \/ TabGoes(t, known) /\ i # Nobody
      \/ TabGoes(t, first) /\ (i = Nobody \/ identity[i] = Nobody)
  BY DEF InsertAccount
<1>. QED BY <1>3, <1>4, <1>5, <1>6

LEMMA SignedInStep ==
  ASSUME SignInInv, NEW t \in Tabs, SignedIn(t)
  PROVE  SignInInv'
<1>. SignInTypes /\ LinkInv /\ FlowInv /\ PendingInv /\ ReportInv
  BY DEF SignInInv
<1>. DEFINE a == tab[t].account
            i == tab[t].identity
            l == tab[t].link
            retired == IF tab[t].old = Nobody THEN {} ELSE {tab[t].cookie}
            inserts == tab[t].creates.exists /\ i # Nobody
<1>1. /\ tab[t] \in TabType /\ tab[t].step = "signin"
      /\ a \in Users \cup {Nobody} /\ i \in Identities \cup {Nobody}
      /\ l \in Links \cup {Nobody} /\ tab[t].creates \in AccountType
  BY DEF SignedIn, SignInTypes, FlowTypes, TabType
<1>2. /\ minted < MaxSessions /\ minted' = minted + 1 /\ UNCHANGED <<sent, link, connected>>
      /\ account' = IF tab[t].creates.exists THEN [account EXCEPT ![a] = tab[t].creates]
                    ELSE account
      /\ identity' = IF inserts THEN [identity EXCEPT ![i] = a] ELSE identity
      /\ owner' = [c \in Conversations |-> IF c \in ClaimedHistory(t) THEN a ELSE owner[c]]
      /\ session' = [s \in SessionIds |->
            IF s = minted' THEN a ELSE IF s \in retired THEN Nobody ELSE session[s]]
      /\ nonce' = WithoutNoncesOf(retired)
      /\ cookie' = [cookie EXCEPT ![tab[t].browser] = minted']
      /\ redeemed' = IF l = Nobody THEN redeemed ELSE [redeemed EXCEPT ![l] = redeemed[l] + 1]
      /\ TabGoes(t, Closed)
  BY DEF SignedIn
<1>3. /\ minted' \in 0 .. MaxSessions /\ minted \in Nat
      /\ \A c \in 0 .. MaxSessions : c <= minted => c <= minted' /\ c # minted'
      /\ minted' <= minted'
  BY <1>2, SessionMade, Sentinel DEF SignInTypes, RowTypes
<1>4. tab' \in [Tabs -> TabType] /\ tab'[t] = Closed /\ \A u \in Tabs : u # t => tab'[u] = tab[u]
  BY <1>2, ClosedType, OneTabMoves
<1>5. /\ nonce' \in [Nonces -> NonceType] /\ \A n \in Nonces : nonce'[n].session <= minted
      /\ \A n \in Nonces : nonce'[n].state = "live" => nonce'[n] = nonce[n]
  BY <1>2, NoncesGo
<1>6. inserts => /\ i \in Identities /\ identity[i] = Nobody /\ t \in Pending
                 /\ \A u \in Pending : u # t => tab[u].identity # i
  BY <1>1 DEF PendingInv, Pending
<1>. HIDE DEF retired, inserts
<1>7. /\ account' \in [Users -> AccountType]
      /\ owner' \in [Conversations -> Principals \cup {Nobody}]
      /\ session' \in [SessionIds -> Principals \cup {Nobody}]
  <2>1. account' \in [Users -> AccountType]
    BY <1>1, <1>2 DEF SignInTypes, RowTypes
  <2>2. owner' \in [Conversations -> Principals \cup {Nobody}]
    BY <1>1, <1>2 DEF SignInTypes, RowTypes, Principals
  <2>3. session' \in [SessionIds -> Principals \cup {Nobody}]
    BY <1>1, <1>2 DEF SignInTypes, RowTypes, Principals
  <2>. QED BY <2>1, <2>2, <2>3
<1>8. /\ identity' \in [Identities -> Users \cup {Nobody}]
      /\ \A j \in Identities : j # i => identity'[j] = identity[j]
      /\ \A j \in Identities : identity[j] # Nobody => identity'[j] = identity[j]
  BY <1>1, <1>2, <1>6 DEF SignInTypes, RowTypes
<1>9. cookie' \in [Browsers -> 0 .. MaxSessions] /\ \A b \in Browsers : cookie'[b] <= minted'
  <2>1. cookie \in [Browsers -> 0 .. MaxSessions] /\ \A b \in Browsers : cookie[b] <= minted
    BY DEF SignInTypes, FlowTypes
  <2>2. \A b \in Browsers : cookie'[b] = cookie[b] \/ cookie'[b] = minted'
    BY <1>2, <2>1
  <2>. QED BY <1>2, <1>3, <2>1, <2>2
<1>10. \A n \in Nonces : nonce'[n].session <= minted'
  BY <1>3, <1>5 DEF NonceType
<1>11. redeemed' \in [Links -> Nat]
  BY <1>1, <1>2 DEF SignInTypes, RowTypes
<1>12. SignInTypes'
  BY <1>2, <1>3, <1>4, <1>5, <1>7, <1>8, <1>9, <1>10, <1>11
    DEF SignInTypes, RowTypes, FlowTypes
<1>13. LinkInv'
  <2>1. CASE l = Nobody
    BY <1>2, <1>4, <2>1, ClosedType, LinksStand
  <2>2. CASE l # Nobody
    <3>1. /\ l \in Links /\ redeemed[l] = 0 /\ link[l].state = "gone"
          /\ \A u \in Tabs : tab[u].link = l => u = t
      BY <1>1, <2>2 DEF LinkInv
    <3>2. redeemed'[l] = 1 /\ \A k \in Links : k # l => redeemed'[k] = redeemed[k]
      BY <1>2, <2>2, <3>1 DEF SignInTypes, RowTypes
    <3>3. \A u \in Tabs : tab'[u].link # l
      BY <1>4, <2>2, <3>1, ClosedType
    <3>4. \A u \in Tabs : tab'[u].link \in {tab[u].link, Nobody}
      BY <1>4, ClosedType
    <3>5. ASSUME NEW k \in Links
          PROVE  /\ redeemed'[k] \in {0, 1}
                 /\ link[k].state # "gone" => redeemed'[k] = 0 /\ \A u \in Tabs : tab'[u].link # k
                 /\ \A u \in Tabs : tab'[u].link = k => redeemed'[k] = 0
                 /\ \A u, v \in Tabs : tab'[u].link = k /\ tab'[v].link = k => u = v
      <4>1. CASE k = l
        BY <3>1, <3>2, <3>3, <4>1
      <4>2. CASE k # l
        BY <3>2, <3>4, <4>2, Sentinel DEF LinkInv
      <4>. QED BY <4>1, <4>2
    <3>6. link' = link
      BY <1>2
    <3>. QED BY <3>5, <3>6 DEF LinkInv
  <2>. QED BY <2>1, <2>2
<1>14. FlowInv'
  <2>1. ASSUME NEW u \in Tabs PROVE tab'[u] = tab[u] \/ FlowOk(tab[u])'
    BY <1>4, ClosedType DEF FlowOk
  <2>2. SessionsOnlyGo
    <3>1. ASSUME NEW s \in SessionIds, s <= minted PROVE session'[s] \in {session[s], Nobody}
      <4>1. s # minted'
        BY <1>3, <3>1 DEF SessionIds
      <4>. QED BY <1>2, <4>1
    <3>. QED BY <1>2, <3>1 DEF SessionsOnlyGo
  <2>. QED BY <1>5, <2>1, <2>2, FlowsStand
<1>15. PendingInv'
  <2>1. ASSUME NEW u \in Pending' PROVE u \in Pending /\ u # t /\ tab'[u] = tab[u]
    <3>1. u \in Tabs /\ tab'[u].step \in {"look", "signin"} /\ tab'[u].creates.exists
      BY DEF Pending
    <3>2. u # t
      BY <1>4, <3>1, ClosedType
    <3>. QED BY <1>4, <3>1, <3>2 DEF Pending
  <2>2. ASSUME NEW u \in Pending', tab'[u].identity # Nobody
        PROVE  /\ identity'[tab'[u].identity] = Nobody
               /\ \A v \in Pending' : v # u => tab'[v].identity # tab'[u].identity
    <3>1. tab[u].identity \in Identities /\ tab'[u].identity = tab[u].identity
      BY <2>1, <2>2 DEF SignInTypes, FlowTypes, TabType, Pending
    <3>2. identity'[tab[u].identity] = identity[tab[u].identity]
      <4>1. CASE inserts
        BY <1>6, <1>8, <2>1, <3>1, <4>1
      <4>2. CASE ~ inserts
        BY <1>2, <4>2
      <4>. QED BY <4>1, <4>2
    <3>3. identity[tab[u].identity] = Nobody
      BY <2>1, <2>2 DEF PendingInv
    <3>4. ASSUME NEW v \in Pending', v # u PROVE tab'[v].identity # tab'[u].identity
      BY <2>1, <2>2, <3>4 DEF PendingInv
    <3>. QED BY <3>1, <3>2, <3>3, <3>4
  <2>. QED BY <2>2 DEF PendingInv
<1>16. ReportInv'
  BY <1>2, <1>8, Sentinel, ReportsStand
<1>. QED BY <1>12, <1>13, <1>14, <1>15, <1>16 DEF SignInInv

----------------------------------------------------------------------------
(* The invariant, and the theorems.                                         *)

LEMMA SignInStarts == SignInInit => SignInInv
<1>. SUFFICES ASSUME SignInInit PROVE SignInInv
  OBVIOUS
<1>1. 0 \in 0 .. MaxSessions /\ 0 \in 0 .. MaxRequests /\ 0 <= 0
  BY Sentinel
<1>2. RowTypes
  BY <1>1, ConstantTypes DEF SignInInit, RowTypes
<1>3. FlowTypes
  BY <1>1, ConstantTypes, ClosedType DEF SignInInit, FlowTypes
<1>4. LinkInv
  BY ClosedType, Sentinel DEF SignInInit, LinkInv
<1>5. FlowInv
  BY ClosedType, ConstantTypes DEF SignInInit, FlowInv
<1>6. PendingInv
  BY ClosedType DEF SignInInit, PendingInv, Pending
<1>7. ReportInv
  BY DEF SignInInit, ReportInv
<1>. QED BY <1>2, <1>3, <1>4, <1>5, <1>6, <1>7 DEF SignInInv, SignInTypes

LEMMA SignInStep == SignInInv /\ [SignInNext]_signInVars => SignInInv'
<1>. SUFFICES ASSUME SignInInv, [SignInNext]_signInVars PROVE SignInInv'
  OBVIOUS
<1>1. ASSUME NEW b \in Browsers, BrowserStep(b) PROVE SignInInv'
  BY <1>1, LogoutStep, ConverseStep, StartLoginStep, StartConnectStep, LoginStep, RegisterStep,
     ClaimLinkStep, ClaimNonceStep, BeginPasswordStep DEF BrowserStep
<1>2. ASSUME NEW t \in Tabs, TabStep(t) PROVE SignInInv'
  BY <1>2, SetPasswordStep, InsertAccountStep, LookStep, SignedInStep, LoseStep,
     InsertIdentityStep, ConnectStep, IdentifyStep DEF TabStep
<1>3. CASE UNCHANGED signInVars
  <2>1. SignInTypes' /\ SessionsOnlyGo
    BY <1>3 DEF signInVars, SessionsOnlyGo, SignInInv, SignInTypes, RowTypes, FlowTypes
  <2>. QED BY <1>3, <2>1, TabsStay, RowsMove DEF signInVars
<1>. QED BY <1>1, <1>2, <1>3, ExpireStep, RequestLinkStep DEF SignInNext

LEMMA SignInAlways == SignInSpec => []SignInInv
BY SignInStarts, SignInStep, PTL DEF SignInSpec

(* The types of the rows of a sign-in, of its cookies, links and flows        *)
(* (auth.py, magic_link.py, oauth.py).                                        *)
THEOREM SignInTyped == SignInSpec => []SignInTypeOK
<1>1. SignInInv => SignInTypeOK
  BY DEF SignInInv, SignInTypes, RowTypes, FlowTypes, SignInTypeOK, AccountType, LinkType,
         NonceType, TabType
<1>. QED BY <1>1, SignInAlways, PTL

(* A link signs somebody in once: a link is open, or claimed and in the     *)
(* hands of one request, or has signed in once and is in nobody's hands     *)
(* (magic_link.py, _claim_token).                                           *)
THEOREM LinkOnce == SignInSpec => []LinkSignsInOnce
<1>1. SignInInv => LinkSignsInOnce
  BY DEF SignInInv, LinkInv, LinkSignsInOnce
<1>. QED BY <1>1, SignInAlways, PTL

(* What a page reports as connected is connected to the account that began  *)
(* the flow: the session a flow is bound to never becomes another's, and an *)
(* identity row, once there, is nobody else's (oauth.py, _link_identity).   *)
THEOREM ReportTrue == SignInSpec => []ReportedLinkIsTrue
<1>1. SignInInv => ReportedLinkIsTrue
  BY DEF SignInInv, ReportInv, ReportedLinkIsTrue
<1>. QED BY <1>1, SignInAlways, PTL

LEMMA OwnersStep ==
  ASSUME SignInInv, [SignInNext]_signInVars, NEW c \in Conversations, IsRegistered(owner[c])
  PROVE  owner'[c] = owner[c]
<1>1. owner \in [Conversations -> Principals \cup {Nobody}] /\ owner[c] # Nobody
  BY Sentinel DEF SignInInv, SignInTypes, RowTypes, IsRegistered
<1>2. ASSUME NEW b \in Browsers, NEW d \in Conversations, Converse(b, d)
      PROVE  owner'[c] = owner[c]
  BY <1>1, <1>2 DEF Converse
<1>3. ASSUME NEW t \in Tabs, SignedIn(t) PROVE owner'[c] = owner[c]
  <2>1. owner' = [d \in Conversations |-> IF d \in ClaimedHistory(t) THEN tab[t].account
                                         ELSE owner[d]]
    BY <1>3 DEF SignedIn
  <2>2. c \notin ClaimedHistory(t)
    BY DEF ClaimedHistory
  <2>. QED BY <2>1, <2>2
<1>4. ASSUME NEW b \in Browsers, BrowserStep(b) PROVE owner'[c] = owner[c]
  BY <1>2, <1>4 DEF BrowserStep, Logout, StartLogin, StartConnect, Login, Register, ClaimLink,
     ClaimNonce, BeginPassword
<1>5. ASSUME NEW t \in Tabs, TabStep(t) PROVE owner'[c] = owner[c]
  BY <1>3, <1>5 DEF TabStep, SetPassword, InsertAccount, Look, Lose, InsertIdentity, Connect,
     Identify
<1>. QED BY <1>4, <1>5 DEF SignInNext, Expire, RequestLink, signInVars

(* No sign-in takes over the history of a registered account: what it       *)
(* claims is an anonymous principal's (auth.py, claim_and_login).           *)
THEOREM HistoryStays == SignInSpec => HistoryIsNotTakenOver
<1>1. SignInInv /\ [SignInNext]_signInVars
        => [\A c \in Conversations : IsRegistered(owner[c]) => owner'[c] = owner[c]]_signInVars
  BY OwnersStep
<1>. QED BY <1>1, SignInAlways, PTL DEF SignInSpec, HistoryIsNotTakenOver

----------------------------------------------------------------------------
(* Allowance.                                                              *)

Admitted(tier) == {q \in Questions : question[q] = tier}

\* What is recorded and what may still be recorded by questions in progress.
AllowanceInv ==
  /\ AllowanceTypeOK
  /\ usage.trial + Cardinality(Admitted("free")) < TrialLimit + Cardinality(Questions)
  /\ usage.month + Cardinality(Admitted("pro")) < MonthlyLimit + Cardinality(Questions)

LEMMA QuestionsCount ==
  /\ Cardinality(Questions) \in Nat /\ Cardinality(Questions) > 0
  /\ \A tier : Cardinality(Admitted(tier)) \in Nat
               /\ Cardinality(Admitted(tier)) <= Cardinality(Questions)
<1>1. \A tier : Admitted(tier) \subseteq Questions
  BY DEF Admitted
<1>. QED BY <1>1, AllowanceAssumption, FS_Subset, FS_CardinalityType, FS_EmptySet

\* A question is admitted with a tier, or ends.
LEMMA AdmittedMoves ==
  ASSUME AllowanceTypeOK, NEW q \in Questions, NEW v \in Tiers \cup {"idle"},
         question' = [question EXCEPT ![q] = v], NEW tier \in Tiers
  PROVE  Admitted(tier)' = IF v = tier THEN Admitted(tier) \cup {q} ELSE Admitted(tier) \ {q}
BY DEF Admitted, AllowanceTypeOK

LEMMA CountMoves ==
  ASSUME AllowanceTypeOK, NEW q \in Questions, NEW v \in Tiers \cup {"idle"},
         question' = [question EXCEPT ![q] = v], NEW tier \in Tiers
  PROVE  /\ IsFiniteSet(Admitted(tier))
         /\ v # tier /\ question[q] = tier =>
              Cardinality(Admitted(tier)') = Cardinality(Admitted(tier)) - 1
         /\ v # tier => Cardinality(Admitted(tier)') <= Cardinality(Admitted(tier))
         /\ Cardinality(Admitted(tier)') <= Cardinality(Questions)
         /\ Cardinality(Admitted(tier)') \in Nat
<1>1. IsFiniteSet(Admitted(tier)) /\ Admitted(tier)' \subseteq Questions
  <2>1. Admitted(tier) \subseteq Questions /\ Admitted(tier)' \subseteq Questions
    BY DEF Admitted
  <2>. QED BY <2>1, AllowanceAssumption, FS_Subset
<1>2. v # tier => Admitted(tier)' = Admitted(tier) \ {q}
  BY AdmittedMoves
<1>3. v # tier /\ question[q] = tier => q \in Admitted(tier)
  BY DEF Admitted
<1>4. v # tier => Cardinality(Admitted(tier)') <= Cardinality(Admitted(tier))
  <2>1. v # tier => Admitted(tier)' \subseteq Admitted(tier)
    BY <1>2
  <2>. QED BY <1>1, <2>1, FS_Subset
<1>5. v # tier /\ question[q] = tier =>
        Cardinality(Admitted(tier)') = Cardinality(Admitted(tier)) - 1
  BY <1>1, <1>2, <1>3, FS_RemoveElement
<1>6. Cardinality(Admitted(tier)') <= Cardinality(Questions) /\ Cardinality(Admitted(tier)') \in Nat
  BY <1>1, AllowanceAssumption, FS_Subset, FS_CardinalityType
<1>. QED BY <1>1, <1>4, <1>5, <1>6

LEMMA UsageCounts ==
  ASSUME AllowanceTypeOK
  PROVE  usage.trial \in Nat /\ usage.month \in Nat /\ usage.older \in Nat
BY DEF AllowanceTypeOK

LEMMA AskStep ==
  ASSUME AllowanceInv, NEW q \in Questions, NEW channel, Ask(q, channel)
  PROVE  AllowanceInv'
<1>. AllowanceTypeOK
  BY DEF AllowanceInv
<1>1. /\ question' = [question EXCEPT ![q] = plan] /\ UNCHANGED <<plan, verified, key, usage>>
      /\ plan \in Tiers
  BY DEF Ask, AllowanceTypeOK
<1>2. AllowanceTypeOK'
  BY <1>1 DEF AllowanceTypeOK
<1>3. plan = "pro" => usage.month < MonthlyLimit
  BY DEF Ask, Used, Limit
<1>4. plan = "free" => usage.trial < TrialLimit
  <2>1. Limit("free") <= TrialLimit /\ Limit("free") \in Nat
    BY AllowanceAssumption DEF Limit
  <2>2. Used("free") = usage.trial + usage.month + usage.older
    BY DEF Used
  <2>3. plan = "free" => Used("free") < Limit("free")
    BY DEF Ask
  <2>. QED BY <2>1, <2>2, <2>3, UsageCounts, AllowanceAssumption
<1>5. \A tier \in Tiers :
        /\ tier # plan => Cardinality(Admitted(tier)') <= Cardinality(Admitted(tier))
        /\ Cardinality(Admitted(tier)') <= Cardinality(Questions)
        /\ Cardinality(Admitted(tier)') \in Nat
  BY <1>1, CountMoves
<1>6. usage.month + Cardinality(Admitted("pro")') < MonthlyLimit + Cardinality(Questions)
  <2>1. CASE plan = "pro"
    BY <1>3, <1>5, <2>1, UsageCounts, QuestionsCount, AllowanceAssumption DEF Tiers
  <2>2. CASE plan # "pro"
    BY <1>5, <2>2, UsageCounts, QuestionsCount, AllowanceAssumption DEF AllowanceInv, Tiers
  <2>. QED BY <2>1, <2>2
<1>7. usage.trial + Cardinality(Admitted("free")') < TrialLimit + Cardinality(Questions)
  <2>1. CASE plan = "free"
    BY <1>4, <1>5, <2>1, UsageCounts, QuestionsCount, AllowanceAssumption DEF Tiers
  <2>2. CASE plan # "free"
    BY <1>5, <2>2, UsageCounts, QuestionsCount, AllowanceAssumption DEF AllowanceInv, Tiers
  <2>. QED BY <2>1, <2>2
<1>. QED BY <1>1, <1>2, <1>6, <1>7 DEF AllowanceInv

LEMMA QuestionEnds ==
  ASSUME AllowanceInv, NEW q \in Questions, question' = [question EXCEPT ![q] = "idle"],
         UNCHANGED <<plan, verified, key>>,
         usage' = usage \/ (question[q] \in Tiers /\ usage' = UsageWith(question[q]))
  PROVE  AllowanceInv'
<1>. AllowanceTypeOK
  BY DEF AllowanceInv
<1>1. /\ usage' \in [trial : Nat, month : Nat, older : Nat]
      /\ usage'.month = usage.month
           \/ (usage'.month = usage.month + 1 /\ question[q] = "pro")
      /\ usage'.trial = usage.trial
           \/ (usage'.trial = usage.trial + 1 /\ question[q] = "free")
  BY DEF AllowanceTypeOK, UsageWith, Tiers
<1>2. AllowanceTypeOK'
  BY <1>1 DEF AllowanceTypeOK
<1>3. \A tier \in Tiers :
        /\ question[q] = tier => Cardinality(Admitted(tier)') = Cardinality(Admitted(tier)) - 1
        /\ Cardinality(Admitted(tier)') <= Cardinality(Admitted(tier))
        /\ Cardinality(Admitted(tier)') \in Nat
  <2>1. "idle" \in Tiers \cup {"idle"} /\ \A tier \in Tiers : tier # "idle"
    BY DEF Tiers
  <2>2. ASSUME NEW tier \in Tiers
        PROVE  /\ question[q] = tier =>
                    Cardinality(Admitted(tier)') = Cardinality(Admitted(tier)) - 1
               /\ Cardinality(Admitted(tier)') <= Cardinality(Admitted(tier))
               /\ Cardinality(Admitted(tier)') \in Nat
    BY <2>1, CountMoves
  <2>. QED BY <2>2
<1>4. usage'.month + Cardinality(Admitted("pro")') < MonthlyLimit + Cardinality(Questions)
  BY <1>1, <1>3, UsageCounts, QuestionsCount, AllowanceAssumption DEF AllowanceInv, Tiers
<1>5. usage'.trial + Cardinality(Admitted("free")') < TrialLimit + Cardinality(Questions)
  BY <1>1, <1>3, UsageCounts, QuestionsCount, AllowanceAssumption DEF AllowanceInv, Tiers
<1>. QED BY <1>2, <1>4, <1>5 DEF AllowanceInv

LEMMA NewMonthStep ==
  ASSUME AllowanceInv, NewMonth
  PROVE  AllowanceInv'
<1>. DEFINE n == AtMostTrial(usage.older + usage.month)
<1>1. /\ usage' = [usage EXCEPT !.older = n, !.month = 0]
      /\ UNCHANGED <<plan, verified, key, question>>
  BY DEF NewMonth
<1>2. usage \in [trial : Nat, month : Nat, older : Nat] /\ n \in Nat
  BY AllowanceAssumption DEF AllowanceInv, AllowanceTypeOK, AtMostTrial
<1>. HIDE DEF n
<1>3. /\ usage' \in [trial : Nat, month : Nat, older : Nat]
      /\ usage'.month = 0 /\ usage'.trial = usage.trial
  BY <1>1, <1>2
<1>4. \A tier \in Tiers : Admitted(tier)' = Admitted(tier)
  BY <1>1 DEF Admitted
<1>5. usage'.month + Cardinality(Admitted("pro")') < MonthlyLimit + Cardinality(Questions)
  BY <1>2, <1>3, <1>4, QuestionsCount, AllowanceAssumption DEF AllowanceInv, Tiers
<1>6. usage'.trial + Cardinality(Admitted("free")') < TrialLimit + Cardinality(Questions)
  BY <1>3, <1>4 DEF AllowanceInv, Tiers
<1>7. AllowanceTypeOK'
  BY <1>1, <1>3 DEF AllowanceInv, AllowanceTypeOK
<1>. QED BY <1>5, <1>6, <1>7 DEF AllowanceInv

LEMMA AllowanceStarts == AllowanceInit => AllowanceInv
<1>. SUFFICES ASSUME AllowanceInit PROVE AllowanceInv
  OBVIOUS
<1>1. AllowanceTypeOK
  BY DEF AllowanceInit, AllowanceTypeOK
<1>2. \A tier \in Tiers : Admitted(tier) = {}
  BY DEF AllowanceInit, Admitted, Tiers
<1>3. Cardinality(Admitted("free")) = 0 /\ Cardinality(Admitted("pro")) = 0
  BY <1>2, FS_EmptySet DEF Tiers
<1>. QED BY <1>1, <1>3, QuestionsCount, AllowanceAssumption DEF AllowanceInit, AllowanceInv

LEMMA AllowanceStep == AllowanceInv /\ [AllowanceNext]_allowanceVars => AllowanceInv'
<1>. SUFFICES ASSUME AllowanceInv, [AllowanceNext]_allowanceVars PROVE AllowanceInv'
  OBVIOUS
<1>1. ASSUME NEW q \in Questions, RecordAnswer(q) PROVE AllowanceInv'
  <2>1. question[q] \in Tiers
    BY <1>1 DEF RecordAnswer, AllowanceInv, AllowanceTypeOK
  <2>. QED BY <1>1, <2>1, QuestionEnds DEF RecordAnswer, TierOf
<1>2. ASSUME NEW q \in Questions, EndUncounted(q) PROVE AllowanceInv'
  BY <1>2, QuestionEnds DEF EndUncounted
<1>3. ASSUME UNCHANGED <<usage, question>>, AllowanceTypeOK' PROVE AllowanceInv'
  BY <1>3 DEF AllowanceInv, Admitted
<1>4. CASE ChangePlan \/ VerifyEmail \/ MakeKey \/ RevokeKey
  BY <1>3, <1>4 DEF ChangePlan, VerifyEmail, MakeKey, RevokeKey, AllowanceInv, AllowanceTypeOK
<1>5. CASE UNCHANGED allowanceVars
  BY <1>3, <1>5 DEF allowanceVars, AllowanceInv, AllowanceTypeOK
<1>. QED BY <1>1, <1>2, <1>4, <1>5, AskStep, NewMonthStep DEF AllowanceNext

(* A trial and a month are exceeded by fewer answers than there are         *)
(* questions in progress: what is recorded and what has been admitted and   *)
(* not recorded yet stay below the limit and the number of questions        *)
(* together, whatever the plan does meanwhile (quota.py).                   *)
THEOREM AllowanceHolds == AllowanceSpec => []AllowanceIsBounded
<1>1. AllowanceInv => AllowanceIsBounded
  BY UsageCounts, QuestionsCount, AllowanceAssumption DEF AllowanceInv, AllowanceIsBounded
<1>. QED BY <1>1, AllowanceStarts, AllowanceStep, PTL DEF AllowanceSpec

(* The types of a question and of what is recorded of it (quota.py).        *)
THEOREM AllowanceTypes == AllowanceSpec => []AllowanceTypeOK
<1>1. AllowanceInv => AllowanceTypeOK
  BY DEF AllowanceInv
<1>. QED BY <1>1, AllowanceStarts, AllowanceStep, PTL DEF AllowanceSpec
=============================================================================

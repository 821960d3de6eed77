--------------------------- MODULE IndexPromotion ---------------------------
(***************************************************************************)
(* Which version of the documentation index is served, and how an operator *)
(* changes it: the admin promote route (api/routes/admin.py), the          *)
(* promotion service it calls (services/index_versions.py), the evaluation *)
(* runs that are the gate's evidence (worker/promotion_eval.py), and the   *)
(* rule the read path resolves the table with                              *)
(* (services/index_resolution.py).                                         *)
(*                                                                         *)
(* Covered: the row locks of promote_version, the per-statement snapshots  *)
(* of Postgres READ COMMITTED (a SELECT ... FOR UPDATE rechecks its WHERE  *)
(* clause on each row once it owns it), the ORM identity map that keeps    *)
(* the route's unlocked read of the target, lost connections, the deadlock *)
(* detector, overlapping evaluations.                                      *)
(*                                                                         *)
(* Not covered: what a run measures (the pass rate is an input), the       *)
(* wording of refusals, the "failed" status (nothing in the application    *)
(* writes it), a run whose metrics cannot be read (the only producer       *)
(* always writes a readable rate).                                         *)
(***************************************************************************)
EXTENDS Integers, Sequences, FiniteSets

CONSTANTS
  Versions,       \* names of index versions
  Promoters,      \* concurrent calls of the promote route
  None,           \* no transaction holds this lock, no version is targeted
  Rates,          \* pass rates a run can measure
  Threshold,      \* Settings.index_promotion_min_pass_rate
  MaxPromotions,  \* bound: promotions started
  MaxRuns         \* bound: evaluation runs started

ASSUME NoneAssumption == None \notin Promoters /\ None \notin Versions
ASSUME RatesAssumption == Rates \subseteq Int /\ Threshold \in Int
ASSUME BoundsAssumption == MaxPromotions \in Nat /\ MaxRuns \in Nat

VARIABLES
  status,      \* index_versions.status; "absent" when there is no row
  promotedAt,  \* index_versions.promoted_at; 0 is NULL
  pointer,     \* index_versions.evaluation_run_id; 0 is NULL
  runs,        \* evaluation_runs in the order of started_at
  lock,        \* the transaction holding each row FOR UPDATE
  tx,          \* what each promote call is doing, and what it has read
  clock,       \* datetime.now, one tick per reading
  audit        \* audit_events with action promote_index, in commit order

rows == <<status, promotedAt, audit>>
evaluations == <<runs, pointer>>
vars == <<status, promotedAt, audit, runs, pointer, lock, tx, clock>>

Statuses == {"absent", "candidate", "active", "previous_good"}
Phases == {"idle", "prior", "started", "locked", "gated", "scanning"}

Run == [version : Versions, status : {"running", "passed", "failed"},
        rate : Rates]
AuditRow == [version : Versions, force : BOOLEAN, run : Nat]

Active == {v \in Versions : status[v] = "active"}

----------------------------------------------------------------------------
(* Evaluation runs.                                                        *)

Terminal(r) == runs[r].status \in {"passed", "failed"}

TerminalRuns(v) == {r \in DOMAIN runs : runs[r].version = v /\ Terminal(r)}

\* Mutant: the status filter is dropped.
LatestRunOfAnyStatus(v) ==
  LET mine == {r \in DOMAIN runs : runs[r].version = v}
  IN  IF mine = {} THEN 0 ELSE CHOOSE r \in mine : \A s \in mine : s =< r

\* _latest_completed_run: the newest started among the terminal runs, 0 if none.
LatestCompletedRun(v) ==
  IF TerminalRuns(v) = {} THEN 0
  ELSE CHOOSE r \in TerminalRuns(v) : \A s \in TerminalRuns(v) : s =< r

\* _assert_candidate_is_evaluable: a version without a row is refused.  One
\* without vectors, or with those of another embedder, is refused too: a run
\* that does not start.
Evaluable(v) == status[v] # "absent"

\* The `running' row is committed before the first case executes.  The table
\* has no foreign key to index_versions, so the INSERT waits for nobody.
StartRun(v) ==
  /\ Len(runs) < MaxRuns
  /\ Evaluable(v)
  /\ \E r \in Rates : runs' = Append(runs, [version |-> v, status |-> "running",
                                           rate |-> r])
  /\ UNCHANGED <<rows, pointer, lock, tx, clock>>

\* link_evaluation_run: the version the run names displays it, passed or failed.
Linked(i) == [pointer EXCEPT ![runs[i].version] = i]

\* The verdict and the displayed pointer land in one transaction, whose
\* UPDATE of the index row waits for a promotion that holds it.
FinishRun(i) ==
  /\ i \in DOMAIN runs
  /\ runs[i].status = "running"
  /\ lock[runs[i].version] = None
  /\ runs' = [runs EXCEPT ![i].status =
                IF runs[i].rate >= Threshold THEN "passed" ELSE "failed"]
  /\ pointer' = Linked(i)
  /\ UNCHANGED <<rows, lock, tx, clock>>

----------------------------------------------------------------------------
(* The promote route.                                                      *)

NoTx == [phase |-> "idle", target |-> None,
         force |-> FALSE, prior |-> "absent", now |-> 0, run |-> 0,
         saw |-> {}, scan |-> {}, demote |-> {}]

TxType == [phase : Phases, target : Versions \cup {None}, force : BOOLEAN,
           prior : Statuses, now : Nat, run : Nat,
           saw : SUBSET Versions, scan : SUBSET Versions,
           demote : SUBSET Versions]

Release(p) == lock' = [v \in Versions |-> IF lock[v] = p THEN None ELSE lock[v]]

\* The call ends without having written: rows keep their values, locks go.
RollBack(p) ==
  /\ Release(p)
  /\ tx' = [tx EXCEPT ![p] = NoTx]
  /\ UNCHANGED <<rows, evaluations, clock>>

\* admin.promote_index_version reads the target without a lock, to report
\* already_active.  The instance stays in the session's identity map.
ReadPrior(p, v, f) ==
  /\ tx[p].phase = "idle"
  /\ clock + Cardinality({q \in Promoters : tx[q].phase = "prior"}) < MaxPromotions
  /\ status[v] # "absent"
  /\ tx' = [tx EXCEPT ![p] = [NoTx EXCEPT !.phase = "prior", !.target = v,
                                          !.force = f, !.prior = status[v]]]
  /\ UNCHANGED <<rows, evaluations, lock, clock>>

\* promote_version takes its timestamp before it takes any lock.
Start(p) ==
  /\ tx[p].phase = "prior"
  /\ clock' = clock + 1
  /\ tx' = [tx EXCEPT ![p].phase = "started", ![p].now = clock + 1]
  /\ UNCHANGED <<rows, evaluations, lock>>

\* SELECT target FOR UPDATE.  The statement does not refresh an instance the
\* session already has, so the status compared is the one ReadPrior loaded.
SeenStatus(p) == tx[p].prior

LockTarget(p) ==
  LET t == tx[p].target IN
  /\ tx[p].phase = "started"
  /\ lock[t] = None
  /\ SeenStatus(p) # "active"
  /\ lock' = [lock EXCEPT ![t] = p]
  /\ tx' = [tx EXCEPT ![p].phase = "locked"]
  /\ UNCHANGED <<rows, evaluations, clock>>

AlreadyActive(p) ==
  /\ tx[p].phase = "started"
  /\ lock[tx[p].target] = None
  /\ SeenStatus(p) = "active"
  /\ RollBack(p)

GateAdmits(p, run) ==
  tx[p].force \/ (run # 0 /\ runs[run].rate >= Threshold)

Gate(p) ==
  LET run == LatestCompletedRun(tx[p].target) IN
  /\ tx[p].phase = "locked"
  /\ GateAdmits(p, run)
  /\ tx' = [tx EXCEPT ![p].phase = "gated", ![p].run = run]
  /\ UNCHANGED <<rows, evaluations, lock, clock>>

\* Mutant: a refusal does not end the transaction.
RefuseKeepingLock(p) ==
  /\ tx[p].phase = "locked"
  /\ ~ GateAdmits(p, LatestCompletedRun(tx[p].target))
  /\ tx' = [tx EXCEPT ![p] = NoTx]
  /\ UNCHANGED <<rows, evaluations, lock, clock>>

Refuse(p) ==
  /\ tx[p].phase = "locked"
  /\ ~ GateAdmits(p, LatestCompletedRun(tx[p].target))
  /\ RollBack(p)

\* SELECT ... WHERE status = active FOR UPDATE, first part: the snapshot of
\* the statement decides which rows it will visit.
ScanActive(p) ==
  /\ tx[p].phase = "gated"
  /\ tx' = [tx EXCEPT ![p].phase = "scanning", ![p].saw = Active,
                      ![p].scan = Active]
  /\ UNCHANGED <<rows, evaluations, lock, clock>>

\* Mutant: the row is demoted on the strength of the snapshot alone.
LockActiveNoRecheck(p, v) ==
  /\ tx[p].phase = "scanning"
  /\ v \in tx[p].scan
  /\ lock[v] \in {None, p}
  /\ lock' = [lock EXCEPT ![v] = p]
  /\ tx' = [tx EXCEPT ![p].scan = @ \ {v}, ![p].demote = @ \cup {v}]
  /\ UNCHANGED <<rows, evaluations, clock>>

\* Mutant: only the first active row is demoted.
LockActiveFirstOnly(p, v) ==
  /\ tx[p].phase = "scanning"
  /\ v \in tx[p].scan
  /\ lock[v] \in {None, p}
  /\ lock' = [lock EXCEPT ![v] = p]
  /\ tx' = [tx EXCEPT ![p].scan = {},
                      ![p].demote = IF status[v] = "active" THEN @ \cup {v} ELSE @]
  /\ UNCHANGED <<rows, evaluations, clock>>

\* Second part, once per row: wait for the row, keep its lock, and return it
\* only if its committed version still satisfies the WHERE clause.
LockActive(p, v) ==
  /\ tx[p].phase = "scanning"
  /\ v \in tx[p].scan
  /\ lock[v] \in {None, p}
  /\ lock' = [lock EXCEPT ![v] = p]
  /\ tx' = [tx EXCEPT ![p].scan = @ \ {v},
                      ![p].demote = IF status[v] = "active" THEN @ \cup {v} ELSE @]
  /\ UNCHANGED <<rows, evaluations, clock>>

Demoted(p) == tx[p].demote \ {tx[p].target}

\* Mutant: the demotion loop runs last and does not skip the target.
StatusDemotingLast(p) ==
  [v \in Versions |-> IF v \in tx[p].demote THEN "previous_good"
                      ELSE IF v = tx[p].target THEN "active"
                      ELSE status[v]]

\* The writes of promote_version and its audit row, committed by the route.
StatusAfter(p) ==
  [v \in Versions |-> IF v = tx[p].target THEN "active"
                      ELSE IF v \in Demoted(p) THEN "previous_good"
                      ELSE status[v]]

StampAfter(p) == [promotedAt EXCEPT ![tx[p].target] = tx[p].now]

Commit(p) ==
  LET t == tx[p].target IN
  /\ tx[p].phase = "scanning"
  /\ tx[p].scan = {}
  /\ status' = StatusAfter(p)
  /\ promotedAt' = StampAfter(p)
  /\ audit' = Append(audit, [version |-> t, force |-> tx[p].force, run |-> tx[p].run])
  /\ Release(p)
  /\ tx' = [tx EXCEPT ![p] = NoTx]
  /\ UNCHANGED <<evaluations, clock>>

\* The connection or the client goes away before the commit.
Abort(p) == tx[p].phase # "idle" /\ RollBack(p)

\* Rows a call needs next and does not own.
Needs(p) ==
  IF tx[p].phase = "started" THEN {tx[p].target}
  ELSE IF tx[p].phase = "scanning" THEN {v \in tx[p].scan : lock[v] # p}
  ELSE {}

\* Postgres breaks a cycle of transactions that wait for each other.
DeadlockVictim(p) ==
  /\ \E C \in SUBSET Promoters :
       /\ p \in C
       /\ \A q \in C : Needs(q) # {} /\ \A v \in Needs(q) : lock[v] \in C \ {q}
  /\ RollBack(p)

\* ensure_index_version: the worker creates the row of a new build.
CreateCandidate(v) ==
  /\ status[v] = "absent"
  /\ status' = [status EXCEPT ![v] = "candidate"]
  /\ UNCHANGED <<promotedAt, audit, evaluations, lock, tx, clock>>

----------------------------------------------------------------------------
Init ==
  /\ status = [v \in Versions |-> "absent"]
  /\ promotedAt = [v \in Versions |-> 0]
  /\ audit = <<>>
  /\ runs = <<>>
  /\ pointer = [v \in Versions |-> 0]
  /\ lock = [v \in Versions |-> None]
  /\ tx = [p \in Promoters |-> NoTx]
  /\ clock = 0

Progress(p) ==
  \/ Start(p) \/ LockTarget(p) \/ AlreadyActive(p) \/ Gate(p) \/ Refuse(p)
  \/ ScanActive(p)
  \/ \E v \in Versions : LockActive(p, v)
  \/ Commit(p) \/ DeadlockVictim(p)

Next ==
  \/ \E v \in Versions : CreateCandidate(v) \/ StartRun(v)
  \/ \E i \in DOMAIN runs : FinishRun(i)
  \/ \E p \in Promoters, v \in Versions, f \in BOOLEAN : ReadPrior(p, v, f)
  \/ \E p \in Promoters : Progress(p) \/ Abort(p)

Spec == Init /\ [][Next]_vars

\* A request that has begun keeps running, and the database answers.
FairSpec == Spec /\ \A p \in Promoters : WF_vars(Progress(p))

----------------------------------------------------------------------------
(* What the read path sees (partition_index_rows over the ordered rows).   *)

Resolution ==
  IF Active = {} THEN "none"
  ELSE IF Cardinality(Active) = 1 THEN "one" ELSE "ambiguous"

----------------------------------------------------------------------------
(* Properties.                                                             *)

\* Types of the rows, of the runs and of what the calls have read.
TypeOK ==
  /\ status \in [Versions -> Statuses]
  /\ promotedAt \in [Versions -> Nat]
  /\ audit \in Seq(AuditRow)
  /\ runs \in Seq(Run)
  /\ pointer \in [Versions -> Nat]
  /\ lock \in [Versions -> Promoters \cup {None}]
  /\ tx \in [Promoters -> TxType]
  /\ \A p \in Promoters : tx[p].phase # "idle" => tx[p].target \in Versions
  /\ clock \in Nat

\* A row that a promotion is about to demote is active and locked by it until
\* it commits, whatever other promotions did between its read of the active
\* rows and its commit: no promotion undoes one that it did not see
\* (the FOR UPDATE and the recheck of promote_version's second SELECT).
DemotesWhatIsServed ==
  \A p \in Promoters : \A v \in tx[p].demote : status[v] = "active" /\ lock[v] = p

\* An active version leaves that state only in a commit that makes it the
\* rollback target and leaves another version active: no interleaving of
\* promotions, lost connections and deadlock victims leaves nothing served
\* once something was ("last known good is preserved").
ActiveLeavesOnlyForSuccessor ==
  [][\A v \in Versions :
       (status[v] = "active" /\ status'[v] # "active")
         => /\ status'[v] = "previous_good"
            /\ \E w \in Versions \ {v} : status'[w] = "active"]_vars

\* Every unforced promotion in the audit log names a finished run of that
\* same version that measured at least the threshold: a running or
\* interrupted evaluation, another version's run, or no run at all never
\* admits one, however runs and promotions overlap.
UnforcedIsEvidenced ==
  \A k \in DOMAIN audit :
    ~ audit[k].force =>
      /\ audit[k].run \in TerminalRuns(audit[k].version)
      /\ runs[audit[k].run].rate >= Threshold

\* Every promote call ends: calls that wait for each other's rows do not
\* wait for ever.
PromotionsEnd == \A p \in Promoters : []<>(tx[p].phase = "idle")

\* What a promotion replaces is what it saw: its commit retires, in one step,
\* every version that was active when it selected the active rows, whatever
\* was promoted, refused, aborted or evaluated since (promote_version, "Demote
\* every active row").
Served == INSTANCE ServedIndex
  WITH served <- Active,
       looked <- {p \in Promoters : tx[p].phase = "scanning"},
       seen   <- [p \in Promoters |-> tx[p].saw]

ReplacesWhatItSaw == Served!Spec

----------------------------------------------------------------------------
(* What the repository says of the program, and the code does not do.      *)

\* index_versions.py:15-16: of two racing promotions "one wins, the other
\* sees a clean state", so the read path always resolves at most one row.
AtMostOneActive == Resolution # "ambiguous"
=============================================================================

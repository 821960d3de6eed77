------------------------ MODULE IndexPromotionProofs ------------------------
(***************************************************************************)
(* Proofs about IndexPromotion, for any sets of versions and of callers,   *)
(* any rates, threshold and bounds.                                        *)
(*                                                                         *)
(* The safety properties rest on one invariant, LockInv: a call that has   *)
(* passed its first SELECT owns its target row, it owns every active row   *)
(* it has visited, and what it noted about those rows is still so.         *)
(***************************************************************************)
EXTENDS IndexPromotion, SequenceTheorems, WellFoundedInduction, TLAPS

----------------------------------------------------------------------------
(* The newest of some runs exists.                                         *)

\* A non-empty set of naturals has a least element.
LEMMA LeastNatural ==
  ASSUME NEW T \in SUBSET Nat, T # {}
  PROVE  \E x \in T : \A y \in T : x =< y
<1>1. PICK x \in T : \A y \in T : ~ (<<y, x>> \in OpToRel(<, Nat))
  BY NatLessThanWellFounded, WFMin
<1>2. ASSUME NEW y \in T PROVE x =< y
  <2>1. <<y, x>> \in Nat \X Nat
    OBVIOUS
  <2>2. ~ (y < x)
    BY <1>1, <2>1 DEF OpToRel
  <2>. QED BY <2>2
<1>. QED BY <1>2

\* A non-empty set of indices of a sequence has a greatest element.
LEMMA GreatestIndex ==
  ASSUME NEW n \in Nat, NEW T \in SUBSET (1 .. n), T # {}
  PROVE  \E x \in T : \A y \in T : y =< x
<1>. DEFINE U == {k \in Nat : n - k \in T}
<1>1. \A y \in T : y \in 1 .. n /\ n - y \in Nat /\ n - (n - y) = y
  OBVIOUS
<1>2. U \in SUBSET Nat /\ U # {}
  BY <1>1
<1>3. PICK u \in U : \A w \in U : u =< w
  BY <1>2, LeastNatural
<1>4. \A y \in T : n - y \in U
  BY <1>1
<1>5. ASSUME NEW y \in T PROVE y =< n - u
  <2>1. u =< n - y
    BY <1>3, <1>4
  <2>2. u \in Nat /\ y \in Nat
    BY <1>1
  <2>. QED BY <2>1, <2>2
<1>. QED BY <1>3, <1>5

\* The run the gate reads is one of the finished runs of the version, when
\* there is any (_latest_completed_run).
LEMMA LatestIsTerminal ==
  ASSUME runs \in Seq(Run), NEW v, TerminalRuns(v) # {}
  PROVE  LatestCompletedRun(v) \in TerminalRuns(v)
<1>1. Len(runs) \in Nat /\ TerminalRuns(v) \in SUBSET (1 .. Len(runs))
  BY DEF TerminalRuns
<1>2. \E r \in TerminalRuns(v) : \A s \in TerminalRuns(v) : s =< r
  BY <1>1, GreatestIndex
<1>. QED BY <1>2 DEF LatestCompletedRun

\* The gate reads a natural number: a run, or 0 for none.
LEMMA LatestType ==
  ASSUME runs \in Seq(Run), NEW v
  PROVE  LatestCompletedRun(v) \in Nat
<1>1. CASE TerminalRuns(v) = {}
  BY <1>1 DEF LatestCompletedRun
<1>2. CASE TerminalRuns(v) # {}
  <2>1. LatestCompletedRun(v) \in DOMAIN runs
    BY <1>2, LatestIsTerminal DEF TerminalRuns
  <2>2. DOMAIN runs = 1 .. Len(runs) /\ Len(runs) \in Nat
    OBVIOUS
  <2>. QED BY <2>1, <2>2
<1>. QED BY <1>1, <1>2

----------------------------------------------------------------------------
(* Types.                                                                  *)

LEMMA NoTxType == NoTx \in TxType /\ NoTx.phase = "idle"
BY DEF NoTx, TxType, Phases, Statuses

\* Replacing what one call has read keeps the types.
LEMMA TxUpdateType ==
  ASSUME TypeOK, NEW p \in Promoters, NEW e \in TxType,
         e.phase # "idle" => e.target \in Versions,
         tx' = [tx EXCEPT ![p] = e]
  PROVE  /\ tx' \in [Promoters -> TxType]
         /\ \A q \in Promoters : tx'[q].phase # "idle" => tx'[q].target \in Versions
BY DEF TypeOK

\* A call that is under way has the type of calls, and a target.
LEMMA TxHasType ==
  ASSUME TypeOK, NEW p \in Promoters
  PROVE  tx[p] \in TxType /\ (tx[p].phase # "idle" => tx[p].target \in Versions)
BY DEF TypeOK

\* A call that ends without writing keeps the types.
LEMMA RollBackType ==
  ASSUME TypeOK, NEW p \in Promoters, RollBack(p)
  PROVE  TypeOK'
BY NoTxType DEF TypeOK, RollBack, Release, rows, evaluations

\* The rows, the runs and what the calls have read keep their types.
THEOREM TypeCorrect == Spec => []TypeOK
<1>1. Init => TypeOK
  BY NoTxType DEF Init, TypeOK, Statuses
<1>2. TypeOK /\ [Next]_vars => TypeOK'
  <2>. SUFFICES ASSUME TypeOK, [Next]_vars PROVE TypeOK'
    OBVIOUS
  <2>1. CASE UNCHANGED vars
    BY <2>1 DEF TypeOK, vars
  <2>2. ASSUME NEW v \in Versions, CreateCandidate(v) PROVE TypeOK'
    BY <2>2 DEF TypeOK, CreateCandidate, evaluations, Statuses
  <2>3. ASSUME NEW v \in Versions, StartRun(v) PROVE TypeOK'
    <3>1. PICK r \in Rates : runs' = Append(runs, [version |-> v,
                                       status |-> "running", rate |-> r])
      BY <2>3 DEF StartRun
    <3>2. runs' \in Seq(Run)
      BY <3>1 DEF TypeOK, Run
    <3>. QED BY <2>3, <3>2 DEF TypeOK, StartRun, rows
  <2>4. ASSUME NEW i \in DOMAIN runs, FinishRun(i) PROVE TypeOK'
    <3>1. i \in Nat /\ runs[i] \in Run
      BY <2>4 DEF TypeOK
    <3>. DEFINE e == [runs[i] EXCEPT !.status =
                        IF runs[i].rate >= Threshold THEN "passed" ELSE "failed"]
    <3>2. e \in Run /\ runs' = [runs EXCEPT ![i] = e]
      BY <2>4, <3>1 DEF FinishRun, Linked, Run
    <3>3. runs' \in Seq(Run)
      BY <3>2, <2>4, ExceptSeq DEF TypeOK
    <3>. QED BY <2>4, <3>1, <3>3 DEF TypeOK, FinishRun, Linked, rows, Run
  <2>5. ASSUME NEW p \in Promoters, NEW v \in Versions, NEW f \in BOOLEAN,
               ReadPrior(p, v, f)
        PROVE  TypeOK'
    <3>. DEFINE e == [NoTx EXCEPT !.phase = "prior", !.target = v, !.force = f,
                                  !.prior = status[v]]
    <3>1. e \in TxType /\ e.phase # "idle" /\ e.target \in Versions
      BY NoTxType DEF TypeOK, NoTx, TxType, Phases
    <3>. QED BY <2>5, <3>1, TxUpdateType DEF TypeOK, ReadPrior, rows, evaluations
  <2>6. ASSUME NEW p \in Promoters, Start(p) PROVE TypeOK'
    <3>. DEFINE n == clock + 1
                e == [tx[p] EXCEPT !.phase = "started", !.now = n]
    <3>3. n \in Nat
      BY DEF TypeOK
    <3>2. tx' = [tx EXCEPT ![p] = e] /\ clock' = n
      BY <2>6 DEF TypeOK, Start
    <3>. HIDE DEF n
    <3>0. tx[p] \in TxType /\ tx[p].target \in Versions
      BY <2>6, TxHasType DEF Start
    <3>1. e \in TxType /\ e.phase # "idle" /\ e.target \in Versions
      BY <3>0, <3>3 DEF TxType, Phases
    <3>. QED BY <2>6, <3>1, <3>2, <3>3, TxUpdateType DEF TypeOK, Start, rows, evaluations
  <2>7. ASSUME NEW p \in Promoters, LockTarget(p) PROVE TypeOK'
    <3>. DEFINE e == [tx[p] EXCEPT !.phase = "locked"]
    <3>0. tx[p] \in TxType /\ tx[p].target \in Versions
      BY <2>7, TxHasType DEF LockTarget
    <3>1. e \in TxType /\ e.phase # "idle" /\ e.target \in Versions
      BY <3>0 DEF TxType, Phases
    <3>2. tx' = [tx EXCEPT ![p] = e]
      BY <2>7 DEF TypeOK, LockTarget
    <3>. QED BY <2>7, <3>1, <3>2, TxUpdateType
         DEF TypeOK, LockTarget, rows, evaluations
  <2>8. ASSUME NEW p \in Promoters, Gate(p) PROVE TypeOK'
    <3>. DEFINE run == LatestCompletedRun(tx[p].target)
                e == [tx[p] EXCEPT !.phase = "gated", !.run = run]
    <3>1. run \in Nat
      BY LatestType DEF TypeOK
    <3>. HIDE DEF run
    <3>0. tx[p] \in TxType /\ tx[p].target \in Versions
      BY <2>8, TxHasType DEF Gate
    <3>2. e \in TxType /\ e.phase # "idle" /\ e.target \in Versions
      BY <3>0, <3>1 DEF TxType, Phases
    <3>3. tx' = [tx EXCEPT ![p] = e]
      BY <2>8 DEF TypeOK, Gate, run
    <3>. QED BY <2>8, <3>2, <3>3, TxUpdateType DEF TypeOK, Gate, rows, evaluations
  <2>9. ASSUME NEW p \in Promoters, ScanActive(p) PROVE TypeOK'
    <3>. DEFINE e == [tx[p] EXCEPT !.phase = "scanning", !.saw = Active,
                                   !.scan = Active]
    <3>0. tx[p] \in TxType /\ tx[p].target \in Versions
      BY <2>9, TxHasType DEF ScanActive
    <3>1. e \in TxType /\ e.phase # "idle" /\ e.target \in Versions
      BY <3>0 DEF TxType, Phases, Active
    <3>2. tx' = [tx EXCEPT ![p] = e]
      BY <2>9 DEF TypeOK, ScanActive
    <3>. QED BY <2>9, <3>1, <3>2, TxUpdateType
         DEF TypeOK, ScanActive, rows, evaluations
  <2>10. ASSUME NEW p \in Promoters, NEW v \in Versions, LockActive(p, v)
         PROVE  TypeOK'
    <3>. DEFINE d == IF status[v] = "active" THEN tx[p].demote \cup {v}
                     ELSE tx[p].demote
                e == [tx[p] EXCEPT !.scan = @ \ {v}, !.demote = d]
    <3>0. tx[p] \in TxType /\ tx[p].phase = "scanning" /\ tx[p].target \in Versions
      BY <2>10, TxHasType DEF LockActive
    <3>3. d \in SUBSET Versions
      BY <3>0 DEF TxType
    <3>4. tx' = [tx EXCEPT ![p] = e]
      BY <2>10 DEF LockActive
    <3>. HIDE DEF d
    <3>1. e \in TxType /\ e.phase # "idle" /\ e.target \in Versions
      BY <3>0, <3>3 DEF TxType
    <3>. QED BY <2>10, <3>1, <3>4, TxUpdateType
         DEF TypeOK, LockActive, rows, evaluations
  <2>11. ASSUME NEW p \in Promoters, Commit(p) PROVE TypeOK'
    <3>. DEFINE t == tx[p].target
    <3>1. t \in Versions /\ tx[p] \in TxType
      BY <2>11 DEF TypeOK, Commit
    <3>2. [version |-> t, force |-> tx[p].force, run |-> tx[p].run] \in AuditRow
      BY <3>1 DEF TxType, AuditRow
    <3>3. audit' \in Seq(AuditRow)
      BY <2>11, <3>2 DEF TypeOK, Commit
    <3>4. status' \in [Versions -> Statuses]
      BY <2>11, <3>1 DEF TypeOK, Commit, StatusAfter, Statuses
    <3>5. promotedAt' \in [Versions -> Nat]
      BY <2>11, <3>1 DEF TypeOK, Commit, StampAfter, TxType
    <3>7. lock' \in [Versions -> Promoters \cup {None}]
      BY <2>11 DEF TypeOK, Commit, Release
    <3>8. /\ tx' \in [Promoters -> TxType]
          /\ \A q \in Promoters : tx'[q].phase # "idle" => tx'[q].target \in Versions
      BY <2>11, NoTxType DEF TypeOK, Commit
    <3>9. clock' \in Nat /\ runs' \in Seq(Run) /\ pointer' \in [Versions -> Nat]
      BY <2>11 DEF TypeOK, Commit, evaluations
    <3>. QED BY <3>3, <3>4, <3>5, <3>7, <3>8, <3>9 DEF TypeOK
  <2>12. ASSUME NEW p \in Promoters, RollBack(p) PROVE TypeOK'
    BY <2>12, RollBackType
  <2>. QED
    BY <2>1, <2>2, <2>3, <2>4, <2>5, <2>6, <2>7, <2>8, <2>9, <2>10, <2>11, <2>12
    DEF Next, Progress, AlreadyActive, Refuse, Abort, DeadlockVictim
<1>. QED BY <1>1, <1>2, PTL DEF Spec

----------------------------------------------------------------------------
(* The lock invariant.                                                     *)

\* What a call has locked and noted is true of the rows, now.
LockInvOf(p) ==
  /\ tx[p].phase \in {"locked", "gated", "scanning"} => lock[tx[p].target] = p
  /\ tx[p].phase # "scanning" =>
       tx[p].saw = {} /\ tx[p].scan = {} /\ tx[p].demote = {}
  /\ tx[p].scan \subseteq tx[p].saw /\ tx[p].demote \subseteq tx[p].saw
  /\ \A v \in tx[p].demote : status[v] = "active" /\ lock[v] = p
  /\ \A v \in tx[p].saw \ tx[p].scan :
       lock[v] = p /\ (v \in tx[p].demote \/ status[v] # "active")

LockInv == \A p \in Promoters : LockInvOf(p)

\* A call that ends gives up only its own locks.
LEMMA RollBackLocks ==
  ASSUME TypeOK, LockInv, NEW p \in Promoters, RollBack(p)
  PROVE  LockInv'
<1>. SUFFICES ASSUME NEW q \in Promoters PROVE LockInvOf(q)'
  BY DEF LockInv
<1>1. CASE q = p
  BY <1>1 DEF TypeOK, RollBack, NoTx, LockInvOf
<1>2. CASE q # p
  <2>1. tx'[q] = tx[q] /\ LockInvOf(q)
    BY <1>2 DEF TypeOK, RollBack, LockInv
  <2>2. \A v \in Versions : lock[v] = q => lock'[v] = q
    BY <1>2 DEF RollBack, Release
  <2>3. status' = status
    BY DEF RollBack, rows
  <2>4. tx[q] \in TxType /\ (tx[q].phase # "idle" => tx[q].target \in Versions)
    BY DEF TypeOK
  <2>. QED BY <2>1, <2>2, <2>3, <2>4 DEF LockInvOf, TxType
<1>. QED BY <1>1, <1>2

\* The statuses a commit writes are those of rows its call owns.
LEMMA CommitWritesOwnRows ==
  ASSUME TypeOK, LockInv, NEW p \in Promoters, Commit(p)
  PROVE  \A v \in Versions : lock[v] # p => status'[v] = status[v]
<1>1. LockInvOf(p)
  BY DEF LockInv
<1>2. lock[tx[p].target] = p /\ \A v \in Demoted(p) : lock[v] = p
  BY <1>1 DEF LockInvOf, Commit, Demoted
<1>3. status' = StatusAfter(p)
  BY DEF Commit
<1>. QED BY <1>2, <1>3 DEF StatusAfter

LEMMA CommitLocks ==
  ASSUME TypeOK, LockInv, NEW p \in Promoters, Commit(p)
  PROVE  LockInv'
<1>. SUFFICES ASSUME NEW q \in Promoters PROVE LockInvOf(q)'
  BY DEF LockInv
<1>1. CASE q = p
  BY <1>1 DEF TypeOK, Commit, NoTx, LockInvOf
<1>2. CASE q # p
  <2>1. tx'[q] = tx[q] /\ LockInvOf(q)
    BY <1>2 DEF TypeOK, Commit, LockInv
  <2>2. \A v \in Versions : lock[v] = q => lock'[v] = q /\ status'[v] = status[v]
    BY <1>2, CommitWritesOwnRows DEF Commit, Release
  <2>3. tx[q] \in TxType /\ (tx[q].phase # "idle" => tx[q].target \in Versions)
    BY DEF TypeOK
  <2>. QED BY <2>1, <2>2, <2>3 DEF LockInvOf, TxType
<1>. QED BY <1>1, <1>2

\* LockInv is preserved by every step.
LEMMA LockInvStep == TypeOK /\ LockInv /\ [Next]_vars => LockInv'
<1>. SUFFICES ASSUME TypeOK, LockInv, [Next]_vars PROVE LockInv'
  OBVIOUS
<1>1. CASE UNCHANGED vars
  BY <1>1 DEF LockInv, LockInvOf, vars
<1>2. ASSUME NEW v \in Versions, CreateCandidate(v) PROVE LockInv'
  <2>1. \A w \in Versions : (status[w] = "active" <=> status'[w] = "active")
    BY <1>2 DEF TypeOK, CreateCandidate
  <2>2. tx' = tx /\ lock' = lock
    BY <1>2 DEF CreateCandidate
  <2>3. \A p \in Promoters : tx[p] \in TxType
    BY DEF TypeOK
  <2>. QED BY <2>1, <2>2, <2>3 DEF LockInv, LockInvOf, TxType
<1>3. ASSUME NEW v \in Versions, StartRun(v) PROVE LockInv'
  BY <1>3 DEF StartRun, rows, LockInv, LockInvOf
<1>4. ASSUME NEW i \in DOMAIN runs, FinishRun(i) PROVE LockInv'
  BY <1>4 DEF FinishRun, rows, LockInv, LockInvOf
<1>5. ASSUME NEW p \in Promoters, NEW v \in Versions, NEW f \in BOOLEAN,
             ReadPrior(p, v, f)
      PROVE  LockInv'
  BY <1>5 DEF TypeOK, ReadPrior, NoTx, rows, LockInv, LockInvOf
<1>6. ASSUME NEW p \in Promoters, Start(p) PROVE LockInv'
  BY <1>6 DEF TypeOK, TxType, Start, rows, LockInv, LockInvOf
<1>7. ASSUME NEW p \in Promoters, LockTarget(p) PROVE LockInv'
  <2>. SUFFICES ASSUME NEW q \in Promoters PROVE LockInvOf(q)'
    BY DEF LockInv
  <2>1. \A v \in Versions : lock[v] = q => lock'[v] = q
    BY <1>7, NoneAssumption DEF TypeOK, LockTarget
  <2>2. tx[q] \in TxType /\ LockInvOf(q) /\ status' = status
    BY <1>7 DEF TypeOK, LockInv, LockTarget, rows
  <2>3. CASE q = p
    <3>1. tx[p].target \in Versions /\ lock'[tx[p].target] = p
      BY <1>7 DEF TypeOK, LockTarget
    <3>2. tx'[p] = [tx[p] EXCEPT !.phase = "locked"]
      BY <1>7 DEF TypeOK, LockTarget
    <3>3. tx[p].saw = {} /\ tx[p].scan = {} /\ tx[p].demote = {}
      BY <1>7, <2>2, <2>3 DEF LockTarget, LockInvOf
    <3>. QED BY <2>2, <2>3, <3>1, <3>2, <3>3 DEF LockInvOf, TxType
  <2>4. CASE q # p
    <3>1. tx'[q] = tx[q] /\ (tx[q].phase # "idle" => tx[q].target \in Versions)
      BY <1>7, <2>4 DEF TypeOK, LockTarget
    <3>. QED BY <2>1, <2>2, <3>1 DEF LockInvOf, TxType
  <2>. QED BY <2>3, <2>4
<1>8. ASSUME NEW p \in Promoters, Gate(p) PROVE LockInv'
  BY <1>8 DEF TypeOK, TxType, Gate, rows, LockInv, LockInvOf
<1>9. ASSUME NEW p \in Promoters, ScanActive(p) PROVE LockInv'
  BY <1>9 DEF TypeOK, TxType, ScanActive, rows, LockInv, LockInvOf
<1>10. ASSUME NEW p \in Promoters, NEW v \in Versions, LockActive(p, v)
       PROVE  LockInv'
  <2>. SUFFICES ASSUME NEW q \in Promoters PROVE LockInvOf(q)'
    BY DEF LockInv
  <2>1. \A w \in Versions : lock[w] = q => lock'[w] = q
    BY <1>10, NoneAssumption DEF TypeOK, LockActive
  <2>2. tx[q] \in TxType /\ LockInvOf(q) /\ status' = status
    BY <1>10 DEF TypeOK, LockInv, LockActive, rows
  <2>3. tx[q].phase # "idle" => tx[q].target \in Versions
    BY DEF TypeOK
  <2>4. CASE q = p
    <3>. DEFINE d == IF status[v] = "active" THEN tx[p].demote \cup {v}
                     ELSE tx[p].demote
    <3>1. tx'[p] = [tx[p] EXCEPT !.scan = @ \ {v}, !.demote = d] /\ lock'[v] = p
      BY <1>10 DEF TypeOK, LockActive
    <3>2. tx'[p].phase = "scanning" /\ tx'[p].target = tx[p].target
          /\ tx'[p].saw = tx[p].saw /\ tx'[p].scan = tx[p].scan \ {v}
          /\ tx'[p].demote = d
      <4>. HIDE DEF d
      <4>1. tx[p] \in TxType /\ tx[p].phase = "scanning"
        BY <1>10, <2>2, <2>4 DEF LockActive
      <4>. QED BY <3>1, <4>1 DEF TxType
    <3>3. tx[p].target \in Versions /\ tx[p].phase = "scanning"
      BY <1>10, <2>3, <2>4 DEF LockActive
    <3>4. \A w \in d : status'[w] = "active" /\ lock'[w] = p
      BY <2>1, <2>2, <2>4, <3>1 DEF LockInvOf, TxType
    <3>5. \A w \in tx[p].saw \ (tx[p].scan \ {v}) :
            lock'[w] = p /\ (w \in d \/ status'[w] # "active")
      BY <2>1, <2>2, <2>4, <3>1 DEF LockInvOf, TxType
    <3>6. d \subseteq tx[p].saw
      BY <1>10, <2>2, <2>4 DEF LockActive, LockInvOf
    <3>. HIDE DEF d
    <3>. QED BY <2>1, <2>2, <2>4, <3>2, <3>3, <3>4, <3>5, <3>6 DEF LockInvOf
  <2>5. CASE q # p
    <3>1. tx'[q] = tx[q]
      BY <1>10, <2>5 DEF TypeOK, LockActive
    <3>. QED BY <2>1, <2>2, <2>3, <3>1 DEF LockInvOf, TxType
  <2>. QED BY <2>4, <2>5
<1>11. ASSUME NEW p \in Promoters, Commit(p) PROVE LockInv'
  BY <1>11, CommitLocks
<1>12. ASSUME NEW p \in Promoters, RollBack(p) PROVE LockInv'
  BY <1>12, RollBackLocks
<1>. QED
  BY <1>1, <1>2, <1>3, <1>4, <1>5, <1>6, <1>7, <1>8, <1>9, <1>10, <1>11, <1>12
  DEF Next, Progress, AlreadyActive, Refuse, Abort, DeadlockVictim

\* The lock invariant holds in every reachable state.
THEOREM LocksAreKept == Spec => []LockInv
<1>1. Init => LockInv
  BY DEF Init, NoTx, LockInv, LockInvOf
<1>. QED BY <1>1, LockInvStep, TypeCorrect, PTL DEF Spec

\* Between its read of the active rows and its commit, whatever the other
\* calls do, a promotion owns the rows it will demote and they stay active.
THEOREM DemotionIsCurrent == Spec => []DemotesWhatIsServed
<1>1. LockInv => DemotesWhatIsServed
  BY DEF LockInv, LockInvOf, DemotesWhatIsServed
<1>. QED BY <1>1, LocksAreKept, PTL

----------------------------------------------------------------------------
(* What a committed promotion leaves.                                      *)

\* Only a commit appends to the audit log, and it is the commit of the call
\* that ends with it.
LEMMA AuditGrowsByCommit ==
  ASSUME TypeOK, [Next]_vars, audit' # audit
  PROVE  \E p \in Promoters :
           /\ Commit(p)
           /\ \A q \in Promoters \ {p} : tx'[q] = tx[q]
<1>1. \E p \in Promoters : Commit(p)
  BY DEF vars, Next, Progress, CreateCandidate, StartRun, FinishRun, ReadPrior,
         Start, LockTarget, AlreadyActive, Gate, Refuse, ScanActive, LockActive,
         DeadlockVictim, Abort, RollBack, rows
<1>. QED BY <1>1 DEF TypeOK, Commit

\* A commit leaves active nothing that its call saw active, except its target.
LEMMA CommitRetires ==
  ASSUME TypeOK, LockInv, NEW p \in Promoters, Commit(p),
         NEW v \in tx[p].saw \ {tx[p].target}
  PROVE  status'[v] # "active"
<1>1. v \in Versions /\ LockInvOf(p) /\ tx[p].scan = {}
  BY DEF TypeOK, TxType, LockInv, Commit
<1>2. v \in tx[p].demote \/ status[v] # "active"
  BY <1>1 DEF LockInvOf
<1>3. status'[v] = IF v \in Demoted(p) THEN "previous_good" ELSE status[v]
  BY <1>1 DEF Commit, StatusAfter
<1>. QED BY <1>2, <1>3 DEF Demoted

\* A commit replaces exactly what its call saw by its target.
LEMMA CommitReplaces ==
  ASSUME TypeOK, LockInv, NEW p \in Promoters, Commit(p)
  PROVE  Active' = (Active \ tx[p].saw) \cup {tx[p].target}
<1>1. tx[p].target \in Versions /\ LockInvOf(p) /\ tx[p] \in TxType
  BY DEF TypeOK, LockInv, Commit
<1>2. Demoted(p) \subseteq tx[p].saw
  BY <1>1 DEF LockInvOf, Demoted
<1>3. \A v \in Versions : status'[v] = IF v = tx[p].target THEN "active"
                                       ELSE IF v \in Demoted(p) THEN "previous_good"
                                       ELSE status[v]
  BY DEF Commit, StatusAfter
<1>. QED BY <1>1, <1>2, <1>3, CommitRetires DEF Active

\* What the abstract promotions have looked at, in terms of the calls.
ViewKept ==
  /\ Active' = Active
  /\ \A p \in Promoters :
       /\ tx'[p].phase = "scanning" <=> tx[p].phase = "scanning"
       /\ tx'[p].saw = tx[p].saw

LEMMA ViewKeptStutters ==
  ASSUME ViewKept
  PROVE  UNCHANGED Served!vars
BY DEF ViewKept, Served!vars

\* A call that ends is an abstract promotion that ends, if it had looked.
LEMMA ViewEnds ==
  ASSUME TypeOK, NEW p \in Promoters, tx[p].phase = "scanning",
         tx' = [tx EXCEPT ![p] = NoTx]
  PROVE  Served!Ends(p)
<1>1. \A q \in Promoters : tx'[q] = IF q = p THEN NoTx ELSE tx[q]
  BY DEF TypeOK
<1>2. NoTx.phase # "scanning" /\ NoTx.saw = {}
  BY DEF NoTx
<1>3. {q \in Promoters : tx'[q].phase = "scanning"}
        = {q \in Promoters : tx[q].phase = "scanning"} \ {p}
  BY <1>1, <1>2
<1>4. [q \in Promoters |-> tx'[q].saw]
        = [[q \in Promoters |-> tx[q].saw] EXCEPT ![p] = {}]
  <2>1. tx'[p].saw = {} /\ \A q \in Promoters \ {p} : tx'[q].saw = tx[q].saw
    BY <1>1, <1>2
  <2>. QED BY <2>1
<1>5. p \in {q \in Promoters : tx[q].phase = "scanning"}
  OBVIOUS
<1>. QED BY <1>3, <1>4, <1>5, Zenon DEF Served!Ends

LEMMA RollBackView ==
  ASSUME TypeOK, LockInv, NEW p \in Promoters, RollBack(p)
  PROVE  [Served!Next]_(Served!vars)
<1>1. Active' = Active /\ tx' = [tx EXCEPT ![p] = NoTx]
  BY DEF RollBack, rows, Active
<1>2. CASE tx[p].phase = "scanning"
  <2>1. Served!GiveUp(p)
    BY <1>1, <1>2, ViewEnds DEF Served!GiveUp
  <2>. QED BY <2>1 DEF Served!Next
<1>3. CASE tx[p].phase # "scanning"
  <2>1. \A q \in Promoters : tx'[q] = IF q = p THEN NoTx ELSE tx[q]
    BY <1>1 DEF TypeOK
  <2>2. tx[p].saw = {} /\ NoTx.saw = {} /\ NoTx.phase # "scanning"
    BY <1>3 DEF LockInv, LockInvOf, NoTx
  <2>3. ViewKept
    BY <1>1, <1>3, <2>1, <2>2 DEF ViewKept
  <2>. QED BY <2>3, ViewKeptStutters
<1>. QED BY <1>2, <1>3

\* Promotion implements its abstract specification.
THEOREM PromotionReplacesWhatItSaw == Spec => ReplacesWhatItSaw
<1>1. Init => Served!Init
  BY DEF Init, Served!Init, NoTx, Active
<1>2. TypeOK /\ LockInv /\ [Next]_vars => [Served!Next]_(Served!vars)
  <2>. SUFFICES ASSUME TypeOK, LockInv, [Next]_vars
                PROVE  [Served!Next]_(Served!vars)
    OBVIOUS
  <2>1. CASE UNCHANGED vars
    BY <2>1, ViewKeptStutters DEF vars, ViewKept, Active
  <2>2. ASSUME NEW v \in Versions, CreateCandidate(v) PROVE ViewKept
    BY <2>2 DEF TypeOK, CreateCandidate, ViewKept, Active
  <2>3. ASSUME NEW v \in Versions, StartRun(v) PROVE ViewKept
    BY <2>3 DEF StartRun, rows, ViewKept, Active
  <2>4. ASSUME NEW i \in DOMAIN runs, FinishRun(i) PROVE ViewKept
    BY <2>4 DEF FinishRun, Linked, rows, ViewKept, Active
  <2>5. ASSUME NEW p \in Promoters, NEW v \in Versions, NEW f \in BOOLEAN,
               ReadPrior(p, v, f)
        PROVE  ViewKept
    <3>. DEFINE e == [NoTx EXCEPT !.phase = "prior", !.target = v, !.force = f,
                                  !.prior = status[v]]
    <3>1. e.phase # "scanning" /\ e.saw = {}
      BY DEF NoTx
    <3>2. tx' = [tx EXCEPT ![p] = e] /\ Active' = Active
      BY <2>5 DEF ReadPrior, rows, Active
    <3>. HIDE DEF e
    <3>3. \A q \in Promoters : tx'[q] = IF q = p THEN e ELSE tx[q]
      BY <3>2 DEF TypeOK
    <3>4. tx[p].phase # "scanning" /\ tx[p].saw = {}
      BY <2>5 DEF ReadPrior, LockInv, LockInvOf
    <3>. QED BY <3>1, <3>2, <3>3, <3>4 DEF ViewKept
  <2>6. ASSUME NEW p \in Promoters, Start(p) PROVE ViewKept
    BY <2>6 DEF TypeOK, TxType, Start, rows, ViewKept, Active
  <2>7. ASSUME NEW p \in Promoters, LockTarget(p) PROVE ViewKept
    BY <2>7 DEF TypeOK, TxType, LockTarget, rows, ViewKept, Active
  <2>8. ASSUME NEW p \in Promoters, Gate(p) PROVE ViewKept
    BY <2>8 DEF TypeOK, TxType, Gate, rows, ViewKept, Active
  <2>9. ASSUME NEW p \in Promoters, ScanActive(p) PROVE Served!Look(p)
    <3>1. \A q \in Promoters : tx'[q] = IF q = p
            THEN [tx[p] EXCEPT !.phase = "scanning", !.saw = Active, !.scan = Active]
            ELSE tx[q]
      BY <2>9 DEF TypeOK, ScanActive
    <3>2. tx[p] \in TxType /\ tx[p].phase # "scanning" /\ Active' = Active
      BY <2>9 DEF TypeOK, ScanActive, rows, Active
    <3>3. tx'[p].phase = "scanning" /\ tx'[p].saw = Active
      BY <3>1, <3>2 DEF TxType
    <3>4. \A q \in Promoters \ {p} : tx'[q] = tx[q]
      BY <3>1
    <3>5. {q \in Promoters : tx'[q].phase = "scanning"}
            = {q \in Promoters : tx[q].phase = "scanning"} \cup {p}
      BY <3>3, <3>4
    <3>6. [q \in Promoters |-> tx'[q].saw]
            = [[q \in Promoters |-> tx[q].saw] EXCEPT ![p] = Active]
      BY <3>3, <3>4
    <3>. QED BY <3>2, <3>5, <3>6 DEF Served!Look
  <2>10. ASSUME NEW p \in Promoters, NEW v \in Versions, LockActive(p, v)
         PROVE  ViewKept
    <3>. DEFINE d == IF status[v] = "active" THEN tx[p].demote \cup {v}
                     ELSE tx[p].demote
                e == [tx[p] EXCEPT !.scan = @ \ {v}, !.demote = d]
    <3>1. tx[p] \in TxType /\ tx' = [tx EXCEPT ![p] = e]
      BY <2>10 DEF TypeOK, LockActive
    <3>. HIDE DEF d
    <3>2. e.phase = tx[p].phase /\ e.saw = tx[p].saw
      BY <3>1 DEF TxType
    <3>. HIDE DEF e
    <3>3. Active' = Active
      BY <2>10 DEF LockActive, rows, Active
    <3>. QED BY <3>1, <3>2, <3>3 DEF TypeOK, ViewKept
  <2>11. ASSUME NEW p \in Promoters, Commit(p) PROVE Served!Replace(p, tx[p].target)
    <3>1. tx[p].phase = "scanning" /\ tx' = [tx EXCEPT ![p] = NoTx]
      BY <2>11 DEF Commit
    <3>. QED BY <2>11, <3>1, ViewEnds, CommitReplaces DEF Served!Replace
  <2>12. ASSUME NEW p \in Promoters, Commit(p) PROVE Served!Next
    <3>1. tx[p].target \in Versions
      BY <2>12 DEF TypeOK, Commit
    <3>. QED BY <2>11, <2>12, <3>1 DEF Served!Next
  <2>13. ASSUME NEW p \in Promoters, ScanActive(p) PROVE Served!Next
    BY <2>9, <2>13 DEF Served!Next
  <2>14. ASSUME NEW p \in Promoters, RollBack(p) PROVE [Served!Next]_(Served!vars)
    BY <2>14, RollBackView
  <2>15. ViewKept => UNCHANGED Served!vars
    BY ViewKeptStutters
  <2>. QED
    BY <2>1, <2>2, <2>3, <2>4, <2>5, <2>6, <2>7, <2>8, <2>10, <2>12, <2>13,
       <2>14, <2>15
    DEF Next, Progress, AlreadyActive, Refuse, Abort, DeadlockVictim
<1>. QED BY <1>1, <1>2, TypeCorrect, LocksAreKept, PTL
     DEF Spec, ReplacesWhatItSaw, Served!Spec

\* A version stops being active only in a commit that makes it the rollback
\* target and another version active: once something is served, something is.
THEOREM LastKnownGoodIsKept == Spec => ActiveLeavesOnlyForSuccessor
<1>1. TypeOK /\ [Next]_vars =>
        \A v \in Versions :
          (status[v] = "active" /\ status'[v] # "active")
            => /\ status'[v] = "previous_good"
               /\ \E w \in Versions \ {v} : status'[w] = "active"
  <2>. SUFFICES ASSUME TypeOK, [Next]_vars, NEW v \in Versions,
                       status[v] = "active", status'[v] # "active"
                PROVE  /\ status'[v] = "previous_good"
                       /\ \E w \in Versions \ {v} : status'[w] = "active"
    OBVIOUS
  <2>1. ASSUME NEW w \in Versions, CreateCandidate(w) PROVE FALSE
    BY <2>1 DEF TypeOK, CreateCandidate
  <2>2. PICK p \in Promoters : Commit(p)
    BY <2>1 DEF vars, Next, Progress, StartRun, FinishRun, ReadPrior,
         Start, LockTarget, AlreadyActive, Gate, Refuse, ScanActive, LockActive,
         DeadlockVictim, Abort, RollBack, rows
  <2>3. tx[p].target \in Versions /\ status' = StatusAfter(p)
    BY <2>2 DEF TypeOK, Commit
  <2>. QED BY <2>3 DEF StatusAfter
<1>. QED BY <1>1, TypeCorrect, PTL DEF Spec, ActiveLeavesOnlyForSuccessor

----------------------------------------------------------------------------
(* Evidence.                                                               *)

\* Run r is evidence for version v.
EvidenceFor(v, r) == r \in TerminalRuns(v) /\ runs[r].rate >= Threshold

\* The evidence of an unforced call that has passed the gate, and of every
\* unforced promotion in the audit log.
GatedEvidence(p) ==
  (tx[p].phase \in {"gated", "scanning"} /\ ~ tx[p].force)
    => EvidenceFor(tx[p].target, tx[p].run)

AuditedEvidence(k) ==
  ~ audit[k].force => EvidenceFor(audit[k].version, audit[k].run)

EvidenceInv ==
  /\ \A p \in Promoters : GatedEvidence(p)
  /\ \A k \in DOMAIN audit : AuditedEvidence(k)

\* Evidence once read stays: later runs and verdicts do not change it.
LEMMA RunsOnlyGrow ==
  ASSUME TypeOK, [Next]_vars
  PROVE  \A v, r : EvidenceFor(v, r) => EvidenceFor(v, r)'
<1>. SUFFICES ASSUME NEW v, NEW r, EvidenceFor(v, r)
              PROVE  EvidenceFor(v, r)'
  OBVIOUS
<1>0. r \in DOMAIN runs /\ runs[r].version = v /\ Terminal(r)
  BY DEF EvidenceFor, TerminalRuns
<1>1. ASSUME NEW w \in Versions, StartRun(w)
      PROVE  r \in DOMAIN runs' /\ runs'[r] = runs[r]
  <2>1. PICK e : e \in Run /\ runs' = Append(runs, e)
    BY <1>1 DEF StartRun, Run
  <2>. QED BY <1>0, <2>1, AppendProperties DEF TypeOK
<1>2. ASSUME NEW i \in DOMAIN runs, FinishRun(i)
      PROVE  r \in DOMAIN runs' /\ runs'[r] = runs[r]
  BY <1>0, <1>2 DEF TypeOK, FinishRun, Linked, Terminal
<1>3. r \in DOMAIN runs' /\ runs'[r] = runs[r]
  BY <1>0, <1>1, <1>2
  DEF vars, Next, Progress, CreateCandidate, ReadPrior, Start, LockTarget,
      AlreadyActive, Gate, Refuse, ScanActive, LockActive, Commit,
      DeadlockVictim, Abort, RollBack, rows, evaluations
<1>. QED BY <1>0, <1>3 DEF EvidenceFor, TerminalRuns, Terminal

\* Passing the gate without force means holding evidence.
LEMMA GateReadsEvidence ==
  ASSUME TypeOK, NEW p \in Promoters, Gate(p), ~ tx[p].force
  PROVE  EvidenceFor(tx[p].target, tx'[p].run)
<1>. DEFINE run == LatestCompletedRun(tx[p].target)
<1>1. run # 0 /\ runs[run].rate >= Threshold
  BY DEF Gate, GateAdmits
<1>2. run \in TerminalRuns(tx[p].target)
  <2>1. TerminalRuns(tx[p].target) # {}
    BY <1>1 DEF LatestCompletedRun
  <2>. QED BY <2>1, LatestIsTerminal DEF TypeOK
<1>3. tx'[p].run = run
  <2>1. tx[p] \in TxType /\ tx' = [tx EXCEPT ![p] = [tx[p] EXCEPT !.phase = "gated",
                                                       !.run = run]]
    BY DEF TypeOK, Gate
  <2>. HIDE DEF run
  <2>. QED BY <2>1 DEF TypeOK, TxType
<1>. QED BY <1>1, <1>2, <1>3 DEF EvidenceFor

\* A call past the gate in the next state was past it already, with the same
\* target, force and run, or has just passed it.
LEMMA GatedBefore ==
  ASSUME TypeOK, [Next]_vars, NEW q \in Promoters,
         tx'[q].phase \in {"gated", "scanning"}
  PROVE  \/ Gate(q) /\ tx'[q].target = tx[q].target /\ tx'[q].force = tx[q].force
         \/ /\ tx[q].phase \in {"gated", "scanning"}
            /\ tx'[q].target = tx[q].target
            /\ tx'[q].force = tx[q].force
            /\ tx'[q].run = tx[q].run
<1>. DEFINE Same == /\ tx[q].phase \in {"gated", "scanning"}
                    /\ tx'[q].target = tx[q].target
                    /\ tx'[q].force = tx[q].force
                    /\ tx'[q].run = tx[q].run
<1>1. ASSUME tx' = tx PROVE Same
  BY <1>1
<1>3. ASSUME NEW p \in Promoters, NEW v \in Versions, NEW f \in BOOLEAN,
             ReadPrior(p, v, f)
      PROVE  Same
  BY <1>3 DEF TypeOK, ReadPrior, NoTx
<1>4. ASSUME NEW p \in Promoters, Start(p) PROVE Same
  BY <1>4 DEF TypeOK, TxType, Start
<1>5. ASSUME NEW p \in Promoters, LockTarget(p) PROVE Same
  BY <1>5 DEF TypeOK, TxType, LockTarget
<1>6. ASSUME NEW p \in Promoters, Gate(p)
      PROVE  Same \/ (Gate(q) /\ tx'[q].target = tx[q].target
                              /\ tx'[q].force = tx[q].force)
  BY <1>6 DEF TypeOK, TxType, Gate
<1>7. ASSUME NEW p \in Promoters, ScanActive(p) PROVE Same
  BY <1>7 DEF TypeOK, TxType, ScanActive
<1>8. ASSUME NEW p \in Promoters, NEW v \in Versions, LockActive(p, v)
      PROVE  Same
  <2>. DEFINE d == IF status[v] = "active" THEN tx[p].demote \cup {v}
                   ELSE tx[p].demote
  <2>1. tx' = [tx EXCEPT ![p] = [tx[p] EXCEPT !.scan = @ \ {v}, !.demote = d]]
    BY <1>8 DEF TypeOK, LockActive
  <2>. HIDE DEF d
  <2>2. tx[p] \in TxType /\ tx[p].phase = "scanning" /\ tx \in [Promoters -> TxType]
    BY <1>8 DEF TypeOK, LockActive
  <2>. QED BY <2>1, <2>2 DEF TxType
<1>9. ASSUME NEW p \in Promoters, Commit(p) \/ RollBack(p) PROVE Same
  <2>1. tx' = [tx EXCEPT ![p] = NoTx]
    BY <1>9 DEF Commit, RollBack
  <2>2. tx'[q] = tx[q]
    BY <2>1, NoTxType DEF TypeOK
  <2>. QED BY <2>2
<1>10. ASSUME UNCHANGED vars PROVE Same
  BY <1>1, <1>10 DEF vars
<1>11. ASSUME NEW v \in Versions, CreateCandidate(v) \/ StartRun(v) PROVE Same
  BY <1>1, <1>11 DEF CreateCandidate, StartRun
<1>12. ASSUME NEW i \in DOMAIN runs, FinishRun(i) PROVE Same
  BY <1>1, <1>12 DEF FinishRun
<1>. DEFINE Passed == Gate(q) /\ tx'[q].target = tx[q].target
                              /\ tx'[q].force = tx[q].force
<1>. HIDE DEF Same
<1>13. ASSUME NEW p \in Promoters, Progress(p) \/ Abort(p)
       PROVE  Same \/ Passed
  BY <1>4, <1>5, <1>6, <1>7, <1>8, <1>9, <1>13
  DEF Progress, AlreadyActive, Refuse, DeadlockVictim, Abort
<1>. HIDE DEF Passed
<1>14. Same \/ Passed
  BY <1>3, <1>10, <1>11, <1>12, <1>13 DEF Next
<1>. QED BY <1>14 DEF Same, Passed

\* EvidenceInv is preserved by every step.
LEMMA EvidenceStep == TypeOK /\ EvidenceInv /\ [Next]_vars => EvidenceInv'
<1>. SUFFICES ASSUME TypeOK, EvidenceInv, [Next]_vars PROVE EvidenceInv'
  OBVIOUS
<1>1. ASSUME NEW q \in Promoters PROVE GatedEvidence(q)'
  <2>. SUFFICES ASSUME tx'[q].phase \in {"gated", "scanning"}, ~ tx'[q].force
                PROVE  EvidenceFor(tx[q].target, tx[q].run)'
    BY DEF GatedEvidence
  <2>1. CASE Gate(q) /\ tx'[q].target = tx[q].target /\ tx'[q].force = tx[q].force
    <3>1. EvidenceFor(tx[q].target, tx'[q].run)
      BY <2>1, GateReadsEvidence
    <3>2. runs' = runs
      BY <2>1 DEF Gate, evaluations
    <3>. QED BY <2>1, <3>1, <3>2 DEF EvidenceFor, TerminalRuns, Terminal
  <2>2. CASE /\ tx[q].phase \in {"gated", "scanning"}
             /\ tx'[q].target = tx[q].target
             /\ tx'[q].force = tx[q].force
             /\ tx'[q].run = tx[q].run
    <3>1. EvidenceFor(tx[q].target, tx[q].run)
      BY <2>2 DEF EvidenceInv, GatedEvidence
    <3>2. PICK t, r : t = tx[q].target /\ r = tx[q].run
      OBVIOUS
    <3>3. EvidenceFor(t, r)'
      BY <3>1, <3>2, RunsOnlyGrow
    <3>. QED BY <2>2, <3>2, <3>3 DEF EvidenceFor, TerminalRuns, Terminal
  <2>. QED BY <2>1, <2>2, GatedBefore
<1>2. ASSUME NEW k \in DOMAIN audit' PROVE AuditedEvidence(k)'
  <2>. SUFFICES ASSUME ~ audit'[k].force
                PROVE  EvidenceFor(audit[k].version, audit[k].run)'
    BY DEF AuditedEvidence
  <2>1. CASE k \in DOMAIN audit /\ audit'[k] = audit[k]
    <3>1. PICK v, r : v = audit[k].version /\ r = audit[k].run
      OBVIOUS
    <3>2. EvidenceFor(v, r)'
      BY <2>1, <3>1, RunsOnlyGrow DEF EvidenceInv, AuditedEvidence
    <3>. QED BY <2>1, <3>1, <3>2 DEF EvidenceFor, TerminalRuns, Terminal
  <2>2. CASE ~ (k \in DOMAIN audit /\ audit'[k] = audit[k])
    <3>1. PICK p \in Promoters : Commit(p)
      BY <2>2, AuditGrowsByCommit
    <3>. DEFINE e == [version |-> tx[p].target, force |-> tx[p].force, run |-> tx[p].run]
    <3>2. audit' = Append(audit, e) /\ e \in AuditRow
      BY <3>1 DEF TypeOK, TxType, Commit, AuditRow
    <3>3. audit'[k] = e
      <4>. HIDE DEF e
      <4>. QED BY <2>2, <3>2, AppendProperties DEF TypeOK
    <3>4. tx[p].phase = "scanning" /\ ~ tx[p].force
      BY <3>1, <3>3 DEF Commit
    <3>5. PICK v, r : v = tx[p].target /\ r = tx[p].run
      OBVIOUS
    <3>6. EvidenceFor(v, r)'
      BY <3>4, <3>5, RunsOnlyGrow DEF EvidenceInv, GatedEvidence
    <3>. QED BY <3>3, <3>5, <3>6 DEF EvidenceFor, TerminalRuns, Terminal
  <2>. QED BY <2>1, <2>2
<1>. QED BY <1>1, <1>2 DEF EvidenceInv

\* Every unforced promotion ever committed names a finished run of that same
\* version that measured at least the threshold.
THEOREM PromotionIsEvidenced == Spec => []UnforcedIsEvidenced
<1>1. Init => EvidenceInv
  BY DEF Init, NoTx, EvidenceInv, GatedEvidence, AuditedEvidence
<1>2. EvidenceInv => UnforcedIsEvidenced
  BY DEF EvidenceInv, AuditedEvidence, EvidenceFor, UnforcedIsEvidenced
<1>. QED BY <1>1, <1>2, EvidenceStep, TypeCorrect, PTL DEF Spec

=============================================================================

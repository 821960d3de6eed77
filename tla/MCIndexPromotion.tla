-------------------------- MODULE MCIndexPromotion --------------------------
(* Instances of IndexPromotion for TLC.                                    *)
EXTENDS IndexPromotion, TLC

CONSTANTS v1, v2, v3, v4, p1, p2

\* Versions and calls are interchangeable in the safety runs.
Symmetry == Permutations(Versions) \cup Permutations(Promoters)

\* Where earlier builds and promotions may have left the table: nothing served
\* yet, one version served and a rollback target, or, after a race (the run
\* dual_active gets there from Init), two versions served.
Earlier ==
  {[v \in Versions |-> IF v = v4 THEN "absent" ELSE "candidate"],
   [v \in Versions |-> CASE v = v1 -> "active" [] v = v2 -> "previous_good"
                         [] OTHER -> "candidate"],
   [v \in Versions |-> IF v \in {v1, v2} THEN "active" ELSE "candidate"]}

PromotionsInit ==
  /\ status \in Earlier
  /\ promotedAt = [v \in Versions |-> 0]
  /\ audit = <<>> /\ runs = <<>>
  /\ pointer = [v \in Versions |-> 0]
  /\ lock = [v \in Versions |-> None]
  /\ tx = [p \in Promoters |-> NoTx]
  /\ clock = 0

\* Bound: the evaluations are of the last two versions.
EvaluatesTwo == \A i \in DOMAIN runs : runs[i].version \in {v3, v4}

PromotionsSpec ==
  /\ PromotionsInit /\ [][Next /\ EvaluatesTwo']_vars
  /\ \A p \in Promoters : WF_vars(Progress(p))
=============================================================================

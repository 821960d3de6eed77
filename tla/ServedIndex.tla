----------------------------- MODULE ServedIndex -----------------------------
(***************************************************************************)
(* What promotion promises its readers: a promotion looks once at what is  *)
(* served and later, in one step, replaces all of that by its own version. *)
(* What others promote between the two stays.  IndexPromotion implements   *)
(* this.  With no other promotion between the two steps exactly one        *)
(* version is served.                                                      *)
(***************************************************************************)
CONSTANTS Versions, Promoters

VARIABLES
  served,  \* the versions the read path may answer from
  looked,  \* promotions that have looked and not yet ended
  seen     \* what each of them saw

vars == <<served, looked, seen>>

Init ==
  /\ served \subseteq Versions
  /\ looked = {}
  /\ seen = [p \in Promoters |-> {}]

Look(p) ==
  /\ p \notin looked
  /\ looked' = looked \cup {p}
  /\ seen' = [seen EXCEPT ![p] = served]
  /\ UNCHANGED served

Ends(p) ==
  /\ p \in looked
  /\ looked' = looked \ {p}
  /\ seen' = [seen EXCEPT ![p] = {}]

GiveUp(p) == Ends(p) /\ UNCHANGED served

Replace(p, v) == Ends(p) /\ served' = (served \ seen[p]) \cup {v}

Next ==
  \E p \in Promoters : Look(p) \/ GiveUp(p) \/ \E v \in Versions : Replace(p, v)

Spec == Init /\ [][Next]_vars
=============================================================================

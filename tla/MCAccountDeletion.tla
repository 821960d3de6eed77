-------------------------- MODULE MCAccountDeletion --------------------------
(* Instances of AccountDeletion for TLC.                                   *)
EXTENDS AccountDeletion, TLC

CONSTANTS i1, i2, o1, p1, m1, a1, a2

\* Accounts and questions are interchangeable in the safety run.
Interchangeable == Permutations({i1, i2}) \cup Permutations({a1, a2})
=============================================================================

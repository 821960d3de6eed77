------------------------- MODULE MCGroundedAnswers -------------------------
(* Instances of GroundedAnswers for TLC.                                   *)
EXTENDS GroundedAnswers, TLC

CONSTANTS s1, s2, w1, w2, x1, x2, x3, a1, a2

\* Sources, runs, versions and requests are interchangeable in the safety runs.
Symmetry ==
  Permutations(Sources) \cup Permutations(Workers)
    \cup Permutations(Versions) \cup Permutations(Askers)
=============================================================================

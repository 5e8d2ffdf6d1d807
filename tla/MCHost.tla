------------------------------- MODULE MCHost -------------------------------
(* Bounds for Host: two paths with two contents, and a medium to swap; three *)
(* PIDs, two of them no code point and so with one detection key, for three  *)
(* processes, one of them protected and two that the rule matches; two       *)
(* addresses, each with a rule and a duplicate; two restarts.                *)
EXTENDS Host, TLC

Symmetry == Permutations(Paths) \cup Permutations(Contents) \cup Permutations(NoRunes)
=============================================================================

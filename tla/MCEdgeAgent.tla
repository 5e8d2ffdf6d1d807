---------------------------- MODULE MCEdgeAgent ----------------------------
(* EdgeAgent on small instances.                                            *)
EXTENDS EdgeAgent, TLC

CONSTANTS c1, c2

OneCollector  == {c1}
TwoCollectors == {c1, c2}
CollectorSymmetry == Permutations(Collectors)

SevereEvents == {2}
NoSevere     == {}
=============================================================================

------------------------ MODULE MCPriorityCorrections ------------------------
(* Instances of PriorityCorrections. *)
EXTENDS PriorityCorrections, Naturals, TLC

CONSTANTS t1, t2, c1, c2, k1, k2

TwoThreads == {t1, t2}
TwoCallers == {c1, c2}
TwoKeys == {k1, k2}
TwoIds == 1..2

Symmetry == Permutations(TwoThreads) \cup Permutations(TwoCallers) \cup Permutations(TwoKeys)
=============================================================================

------------------------- MODULE MCProviderBindings -------------------------
(* Instances of ProviderBindings. *)
EXTENDS ProviderBindings, TLC

CONSTANTS t1, t2, l1, l2, c1, c2

TwoThreads == {t1, t2}
TwoLocators == {l1, l2}
TwoCallers == {c1, c2}
FourIds == 1..4

Symmetry == Permutations(TwoThreads) \cup Permutations(TwoLocators) \cup Permutations(TwoCallers)
=============================================================================

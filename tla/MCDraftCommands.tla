--------------------------- MODULE MCDraftCommands ---------------------------
(* Model values for DraftCommands. *)
EXTENDS DraftPromise, TLC

CONSTANTS d1, d2, k1, k2, k3, w1, w2

OneDraft == {d1}
TwoDrafts == {d1, d2}
TwoKeys == {k1, k2}
ThreeKeys == {k1, k2, k3}
OneSlot == {w1}
TwoSlots == {w1, w2}

\* Drafts, keys and slots are interchangeable: no definition tells them apart.
KeysAndSlots == Permutations(ThreeKeys) \cup Permutations(TwoSlots)
DraftsAndKeys == Permutations(TwoDrafts) \cup Permutations(ThreeKeys)
==============================================================================

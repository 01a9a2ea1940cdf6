-------------------------- MODULE MCMailboxListing --------------------------
(* Instances of MailboxListing. *)
EXTENDS MailboxListing, TLC

CONSTANTS m1, t1, s1, s2, r1

OneMessage == {m1}
OneThread == {t1}
ThreadOfMessage == m1 :> t1
TwoSlots == {s1, s2}
OneReader == {r1}

SlotSymmetry == Permutations(TwoSlots)
=============================================================================

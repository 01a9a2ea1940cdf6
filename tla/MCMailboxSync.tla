--------------------------- MODULE MCMailboxSync ---------------------------
(* Instances of MailboxSync. *)
EXTENDS MailboxSync, TLC

CONSTANTS m1, t1, s1, s2

OneMessage == {m1}
OneThread == {t1}
ThreadOfMessage == m1 :> t1
TwoSlots == {s1, s2}
=============================================================================

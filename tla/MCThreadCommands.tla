--------------------------- MODULE MCThreadCommands ---------------------------
(* Model values for ThreadCommands. *)
EXTENDS ThreadCommands

CONSTANTS k1, w1, w2

OneKey == {k1}
TwoSlots == {w1, w2}
===============================================================================

---------------------------- MODULE LinearHistory ----------------------------
(***************************************************************************)
(* What a record of transitions promises: nothing is removed or altered, what   *)
(* is added continues the history where it stood, and the head is its end.      *)
(* No lock, no expectation, no caller: histories that fork, that lose an entry    *)
(* or that have a second root are not behaviours of this specification.         *)
(***************************************************************************)
CONSTANT None   \* the head of an empty history

VARIABLES
  entries,   \* records with an id and the id of the previous entry
  head

vars == <<entries, head>>

Linked(e, id, previous) == e.id = id /\ e.previous = previous

Init ==
  \/ entries = {} /\ head = None
  \/ \E e \in entries : entries = {e} /\ Linked(e, head, None) /\ head # None

\* One entry, or two in one transaction, added at the end.
Extends(added) ==
  \/ \E e \in added : added = {e} /\ Linked(e, head', head)
  \/ \E e, f \in added :
       /\ added = {e, f} /\ e.id # f.id
       /\ e.previous = head
       /\ Linked(f, head', e.id)

Append ==
  /\ entries \subseteq entries'
  /\ Extends(entries' \ entries)
  /\ \A e \in entries' \ entries, f \in entries : e.id # f.id
  /\ \A e \in entries' \ entries : e.id # None

Spec == Init /\ [][Append]_vars
=============================================================================

----------------------------- MODULE ThreadRows -----------------------------
(***************************************************************************)
(* The rows of application_threads, which the provider bindings and the        *)
(* priority corrections of a thread both lock with SELECT ... FOR UPDATE.      *)
(***************************************************************************)
CONSTANTS
  Threads,
  Callers,    \* clients, each with one request under way at most
  NoCaller,
  None,       \* SQL's NULL
  NoReply

ASSUME RowAssumption == NoCaller \notin Callers

VARIABLES
  current,   \* current_transition_id, None when the thread has no row
  holder,    \* the transaction that has locked the row
  reply      \* what the last step answered, and to whom

threadVars == <<current, holder>>

Silently == reply' = NoReply

\* Mutant: the row is read without FOR UPDATE.
LockNothing(c, t) == holder' = holder

Lock(c, t) ==
  /\ holder[t] = NoCaller
  /\ holder' = [holder EXCEPT ![t] = c]

\* Commit or rollback.
Unlock(c) == holder' = [t \in Threads |-> IF holder[t] = c THEN NoCaller ELSE holder[t]]
=============================================================================

--------------------------- MODULE MutationPromise ---------------------------
(***************************************************************************)
(* What the command subsystem promises about the Gmail mutations a user      *)
(* asks for, without rows, claims, leases or workers.  A mutation is called   *)
(* at most once; it fails only if it was never called and then never is; it   *)
(* succeeds only on evidence of its effect; once in doubt it is never         *)
(* retried, and only such evidence resolves it.                              *)
(***************************************************************************)
EXTENDS Naturals

CONSTANT Mutations

VARIABLES
  stage,    \* none, open, doubtful, succeeded or failed
  called,   \* how often the mutation was sent to Gmail
  evident   \* mutations whose effect is visible in Gmail

vars == <<stage, called, evident>>

Init ==
  /\ stage = [m \in Mutations |-> "none"]
  /\ called = [m \in Mutations |-> 0]
  /\ evident = {}

\* The effect may be there already: the user can have sent the draft from Gmail.
Request(m) ==
  /\ stage[m] = "none"
  /\ stage' = [stage EXCEPT ![m] = "open"]
  /\ evident' \in {evident, evident \cup {m}}
  /\ UNCHANGED called

\* A worker that lost its claim can still send what it had committed to, while
\* the mutation is in doubt or even after other evidence resolved it.
Call(m) ==
  /\ stage[m] \in {"open", "doubtful", "succeeded"}
  /\ called[m] = 0
  /\ called' = [called EXCEPT ![m] = 1]
  /\ UNCHANGED <<stage, evident>>

BecomeEvident(m) ==
  /\ stage[m] # "none"
  /\ evident' = evident \cup {m}
  /\ UNCHANGED <<stage, called>>

Fail(m) ==
  /\ stage[m] = "open"
  /\ called[m] = 0
  /\ stage' = [stage EXCEPT ![m] = "failed"]
  /\ UNCHANGED <<called, evident>>

\* Several commands can be found in doubt by one scan.
Doubt(M) ==
  /\ \A m \in M : stage[m] = "open"
  /\ stage' = [m \in Mutations |-> IF m \in M THEN "doubtful" ELSE stage[m]]
  /\ UNCHANGED <<called, evident>>

Succeed(m) ==
  /\ stage[m] \in {"open", "doubtful"}
  /\ m \in evident
  /\ stage' = [stage EXCEPT ![m] = "succeeded"]
  /\ UNCHANGED <<called, evident>>

Next ==
  \/ \E m \in Mutations : \/ Request(m) \/ Call(m) \/ BecomeEvident(m)
                          \/ Fail(m) \/ Succeed(m)
  \/ \E M \in SUBSET Mutations : Doubt(M)

Spec == Init /\ [][Next]_vars
==============================================================================

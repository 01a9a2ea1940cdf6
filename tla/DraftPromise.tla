----------------------------- MODULE DraftPromise -----------------------------
(***************************************************************************)
(* DraftCommands implements MutationPromise: a command is open while it is   *)
(* pending, running or retryable, doubtful in recovery_required, and its      *)
(* effect is evident when Gmail applied it or, for a send, when the message   *)
(* is in Sent.                                                              *)
(***************************************************************************)
EXTENDS DraftCommands

StageOf(status) ==
  CASE status \in {"pending", "running", "retryable"} -> "open"
    [] status = "recovery_required" -> "doubtful"
    [] status \in {"none", "succeeded", "failed"} -> status

EffectEvident(c) ==
  \/ c \in applied
  \/ cmd[c].type = "send" /\ gmail[cmd[c].draft].sent > 0

Promise == INSTANCE MutationPromise WITH
  Mutations <- Commands,
  stage     <- [c \in Commands |-> StageOf(cmd[c].status)],
  called    <- calls,
  evident   <- {c \in Commands : EffectEvident(c)}

\* The whole pipeline of claims, crashes, lease expiries, recoveries and
\* verifications keeps the promise of MutationPromise.
PromiseKept == Promise!Spec
==============================================================================

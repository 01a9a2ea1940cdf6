-------------------------- MODULE MCCommandPipeline --------------------------
(* Model values for CommandPipeline. *)
EXTENDS CommandPipeline

CONSTANTS d1, k1, k2, w1, w2, p1, p2

OneDraft == {d1}
OneKey == {k1}
TwoKeys == {k1, k2}
OneSlot == {w1}
OneDispatcher == {p1}
TwoDispatchers == {p1, p2}
TwoSlots == {w1, w2}

\* A reachable state to start from: k1 has created d1, and its job is kept by the queue.
CreatedInit ==
  /\ draft = [d \in Drafts |-> [status |-> "ready", revision |-> 1, confirmed |-> 1,
                                last |-> k1, provider |-> 1]]
  /\ cmd = [c \in Commands |->
       IF c = k1
       THEN [PendingCommand("create", d1, 1) EXCEPT !.status = "succeeded", !.attempts = 1, !.marked = TRUE]
       ELSE NoRow]
  /\ work = [w \in Workers |-> Idle]
  /\ gmail = [d \in Drafts |-> [copies |-> 1, version |-> 1, sent |-> 0]]
  /\ request = [c \in Commands |-> [state |-> IF c = k1 THEN "ok" ELSE "none",
                                    version |-> IF c = k1 THEN 1 ELSE 0]]
  /\ calls = [c \in Commands |-> IF c = k1 THEN 1 ELSE 0]
  /\ applied = {k1}
  /\ event = [c \in Commands |-> [published |-> c = k1, holder |-> NoDispatcher, leased |-> FALSE]]
  /\ batch = [p \in Dispatchers |-> NoBatch]
  /\ job = [j \in JobIds |-> IF j = Execute(k1) THEN "finished" ELSE "none"]
  /\ asked = {}
  /\ lost = FALSE

\* Only the schedulers are fair: slots and dispatchers may die at any step.
CreatedPipeline == CreatedInit /\ [][PipelineNext]_pipelineVars /\ Fairness

\* Here slots and dispatchers finish what they began, and the operator replays the queue.
ReplayedPipeline ==
  CreatedInit /\ [][PipelineNext]_pipelineVars /\ PipelineFairness /\ WF_pipelineVars(ReplayQueue)
==============================================================================

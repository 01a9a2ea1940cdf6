--------------------------- MODULE CommandPipeline ---------------------------
(***************************************************************************)
(* How a command reaches a worker slot: the transactional outbox, the         *)
(* dispatchers that move its events to the gmail-commands queue, and the      *)
(* queue, whose jobs wake the slots of DraftCommands.  The steps of           *)
(* DraftCommands are taken over whole; a claim now needs a waiting job.       *)
(*                                                                         *)
(* A dispatcher stands for the claim identifier of its current batch: the     *)
(* scheduler never overlaps two runs of one process.  The queue (BullMQ on    *)
(* Redis, external) keeps one job per job identifier and ignores an add whose *)
(* identifier it still holds, finished jobs included until they are evicted.  *)
(***************************************************************************)
EXTENDS DraftCommands

CONSTANTS
  Dispatchers,    \* worker processes running the outbox scheduler
  NoDispatcher,
  RedisMayFail    \* whether the queue can lose its jobs

ASSUME PipelineAssumption ==
  /\ NoDispatcher \notin Dispatchers
  /\ RedisMayFail \in BOOLEAN

VARIABLES
  event,    \* outbox_events row of each command
  batch,    \* per dispatcher: events claimed, and those already enqueued
  job,      \* queue jobs, by kind and command
  asked,    \* history: send verifications accepted whose job has not ended
  lost      \* history: whether the queue has lost its jobs

pipelineVars == <<vars, event, batch, job, asked, lost>>
transport == <<event, batch, job, asked, lost>>

Execute(c) == <<"execute", c>>
Verify(c) == <<"verify", c>>
JobIds == {"execute", "verify"} \X Commands

NoBatch == [claimed |-> {}, enqueued |-> {}]

PipelineInit ==
  /\ Init
  /\ event = [c \in Commands |-> [published |-> FALSE, holder |-> NoDispatcher, leased |-> FALSE]]
  /\ batch = [p \in Dispatchers |-> NoBatch]
  /\ job = [j \in JobIds |-> "none"]
  /\ asked = {}
  /\ lost = FALSE

\* queue.add with a job identifier.
AddJobs(S) == job' = [j \in JobIds |-> IF j \in S /\ job[j] = "none" THEN "waiting" ELSE job[j]]

FinishJob(j) ==
  /\ job' = [job EXCEPT ![j] = "finished"]
  /\ asked' = {c \in asked : Verify(c) # j}

------------------------------------------------------------------------------
(* Outbox.  The event row is inserted with its command: it exists, unpublished, *)
(* as soon as the command does.                                                *)

RequestMutation == UserRequests /\ UNCHANGED transport

\* Mutant: an expired dispatch lease is not taken over.
DispatchableIfFree(c) ==
  cmd[c].status # "none" /\ ~event[c].published /\ event[c].holder = NoDispatcher

Dispatchable(c) ==
  /\ cmd[c].status # "none"
  /\ ~event[c].published
  /\ event[c].holder = NoDispatcher \/ ~event[c].leased

ClaimOutboxEvents(p) ==
  LET S == {c \in Commands : Dispatchable(c)} IN
  /\ batch[p] = NoBatch
  /\ S # {}
  /\ event' = [c \in Commands |->
                 IF c \in S THEN [event[c] EXCEPT !.holder = p, !.leased = TRUE] ELSE event[c]]
  /\ batch' = [batch EXCEPT ![p].claimed = S]
  /\ UNCHANGED <<vars, job, asked, lost>>

EnqueueProviderCommand(p, c) ==
  /\ c \in batch[p].claimed
  /\ AddJobs({Execute(c)})
  /\ batch' = [batch EXCEPT ![p].claimed = @ \ {c}, ![p].enqueued = @ \cup {c}]
  /\ UNCHANGED <<vars, event, asked, lost>>

\* Mutant: the event is published before its job is added.
MarkOutboxPublishedEarly(p, c) ==
  /\ c \in batch[p].claimed \cup batch[p].enqueued
  /\ event' = IF event[c].holder = p /\ ~event[c].published
              THEN [event EXCEPT ![c] = [published |-> TRUE, holder |-> NoDispatcher,
                                         leased |-> FALSE]]
              ELSE event
  /\ batch' = [batch EXCEPT ![p].enqueued = @ \ {c}]
  /\ UNCHANGED <<vars, job, asked, lost>>

\* A lost claim publishes nothing.
MarkOutboxPublished(p, c) ==
  /\ c \in batch[p].enqueued
  /\ event' = IF event[c].holder = p /\ ~event[c].published
              THEN [event EXCEPT ![c] = [published |-> TRUE, holder |-> NoDispatcher,
                                         leased |-> FALSE]]
              ELSE event
  /\ batch' = [batch EXCEPT ![p].enqueued = @ \ {c}]
  /\ UNCHANGED <<vars, job, asked, lost>>

\* The enqueue or the publication throws, perhaps after the job was added.
ReleaseOutboxClaim(p, c) ==
  /\ c \in batch[p].claimed \cup batch[p].enqueued
  /\ event' = IF event[c].holder = p /\ ~event[c].published
              THEN [event EXCEPT ![c].holder = NoDispatcher, ![c].leased = FALSE]
              ELSE event
  /\ batch' = [batch EXCEPT ![p].claimed = @ \ {c}, ![p].enqueued = @ \ {c}]
  /\ AddJobs({Execute(c)}) \/ UNCHANGED job
  /\ UNCHANGED <<vars, asked, lost>>

DispatcherCrashes(p) ==
  /\ batch[p] # NoBatch
  /\ batch' = [batch EXCEPT ![p] = NoBatch]
  /\ UNCHANGED <<vars, event, job, asked, lost>>

DispatchLeaseExpires(c) ==
  /\ event[c].leased
  /\ event' = [event EXCEPT ![c].leased = FALSE]
  /\ UNCHANGED <<vars, batch, job, asked, lost>>

\* Mutant: only retryable commands are replayed.
ReplayRetryable ==
  /\ \E S \in SUBSET {c \in Commands : cmd[c].status = "retryable"} :
       /\ \E c \in S : job[Execute(c)] = "none"
       /\ AddJobs({Execute(c) : c \in S})
  /\ UNCHANGED <<vars, event, batch, asked, lost>>

\* scripts/operations.ts replay-queue, which can stop half-way.
ReplayQueue ==
  /\ \E S \in SUBSET {c \in Commands : cmd[c].status \in {"pending", "retryable"}} :
       /\ \E c \in S : job[Execute(c)] = "none"
       /\ AddJobs({Execute(c) : c \in S})
  /\ UNCHANGED <<vars, event, batch, asked, lost>>

------------------------------------------------------------------------------
(* Worker slots.                                                              *)

\* An execute job wakes a slot: claim the command, or end with not_claimed.
TakeExecuteJob(w, c) ==
  /\ job[Execute(c)] = "waiting"
  /\ ClaimCommand(w, c)
  /\ job' = [job EXCEPT ![Execute(c)] = "active"]
  /\ UNCHANGED <<event, batch, asked, lost>>

ExecuteNotClaimed(w, c) ==
  /\ job[Execute(c)] = "waiting"
  /\ work[w].pc = "idle"
  /\ ~(cmd[c].status \in {"pending", "retryable"} /\ cmd[c].due)
  /\ FinishJob(Execute(c))
  /\ UNCHANGED <<vars, event, batch, lost>>

TakeVerifyJob(w, c) ==
  /\ job[Verify(c)] = "waiting"
  /\ ClaimRecovery(w, c)
  /\ job' = [job EXCEPT ![Verify(c)] = "active"]
  /\ UNCHANGED <<event, batch, asked, lost>>

VerifyNotClaimed(w, c) ==
  /\ job[Verify(c)] = "waiting"
  /\ work[w].pc = "idle"
  /\ ~(cmd[c].status = "recovery_required" /\ (cmd[c].owner = NoWorker \/ ~cmd[c].leased))
  /\ FinishJob(Verify(c))
  /\ UNCHANGED <<vars, event, batch, lost>>

JobOf(w) ==
  IF work[w].pc \in {"verifying", "found"} THEN Verify(work[w].cmd) ELSE Execute(work[w].cmd)

\* A step of a running job; the job is finished when its slot is idle again.
RunJob(w) ==
  /\ ExecutionStep(w) \/ VerificationStep(w) \/ Abandon(w)
  /\ IF work'[w].pc = "idle" THEN FinishJob(JobOf(w)) ELSE UNCHANGED <<job, asked>>
  /\ UNCHANGED <<event, batch, lost>>

\* The process dies: its job stays active until the queue finds it stalled.
WorkerCrashes(w) == Abandon(w) /\ UNCHANGED transport

\* A stalled job is delivered again, or given up when it stalled before.
JobStalls(j) ==
  /\ job[j] = "active"
  /\ ~ \E w \in Workers : work[w].pc # "idle" /\ JobOf(w) = j
  /\ \/ job' = [job EXCEPT ![j] = "waiting"] /\ UNCHANGED asked
     \/ FinishJob(j)
  /\ UNCHANGED <<vars, event, batch, lost>>

EvictJob(j) ==
  /\ job[j] = "finished"
  /\ job' = [job EXCEPT ![j] = "none"]
  /\ UNCHANGED <<vars, event, batch, asked, lost>>

RedisLosesJobs ==
  /\ RedisMayFail
  /\ \E j \in JobIds : job[j] # "none"
  /\ job' = [j \in JobIds |-> "none"]
  /\ lost' = TRUE
  /\ UNCHANGED <<vars, event, batch, asked>>

\* POST send-verification: findSendRecoveryCommandForUser, then enqueue and 202.
RequestSendVerification(c) ==
  /\ cmd[c].type = "send"
  /\ cmd[c].status = "recovery_required"
  /\ draft[cmd[c].draft].last = c
  /\ draft[cmd[c].draft].status = "recovery_required"
  /\ AddJobs({Verify(c)})
  /\ asked' = asked \cup {c}
  /\ UNCHANGED <<vars, event, batch, lost>>

------------------------------------------------------------------------------

Dispatch == \E p \in Dispatchers :
  \/ ClaimOutboxEvents(p)
  \/ \E c \in Commands : EnqueueProviderCommand(p, c) \/ MarkOutboxPublished(p, c)
                         \/ ReleaseOutboxClaim(p, c)
  \/ DispatcherCrashes(p)

TakeJob(w) == \E c \in Commands :
  TakeExecuteJob(w, c) \/ ExecuteNotClaimed(w, c) \/ TakeVerifyJob(w, c) \/ VerifyNotClaimed(w, c)

Queue ==
  \/ \E j \in JobIds : JobStalls(j) \/ EvictJob(j)
  \/ RedisLosesJobs

Background == (Passage \/ Maintenance \/ Gmail) /\ UNCHANGED transport

PipelineNext ==
  \/ RequestMutation
  \/ Dispatch
  \/ \E c \in Commands : DispatchLeaseExpires(c) \/ RequestSendVerification(c)
  \/ ReplayQueue
  \/ \E w \in Workers : TakeJob(w) \/ RunJob(w) \/ WorkerCrashes(w)
  \/ Queue
  \/ Background

PipelineSpec == PipelineInit /\ [][PipelineNext]_pipelineVars

\* Time passes and the schedulers keep running; a slot takes waiting jobs and
\* works on its job; Redis and the database are not down for ever, so an enqueue
\* or a publication that is tried again and again succeeds; stalled jobs are found.
PipelineFairness ==
  /\ Fairness
  /\ \A c \in Commands : WF_pipelineVars(BackoffElapses(c) /\ UNCHANGED transport)
  /\ \A c \in Commands : WF_pipelineVars(DispatchLeaseExpires(c))
  /\ \A p \in Dispatchers :
       /\ WF_pipelineVars(ClaimOutboxEvents(p))
       /\ \A c \in Commands : /\ SF_pipelineVars(EnqueueProviderCommand(p, c))
                              /\ SF_pipelineVars(MarkOutboxPublished(p, c))
  /\ \A w \in Workers :
       /\ WF_pipelineVars(RunJob(w))
       /\ \A c \in Commands : /\ SF_pipelineVars(TakeExecuteJob(w, c))
                              /\ SF_pipelineVars(TakeVerifyJob(w, c))
  /\ \A j \in JobIds : WF_pipelineVars(JobStalls(j))

FairPipeline == PipelineSpec /\ PipelineFairness

------------------------------------------------------------------------------
(* Properties.                                                                *)

\* Outbox events, batches and jobs stay in their types.
PipelineTypeOK ==
  /\ event \in [Commands -> [published : BOOLEAN, holder : Dispatchers \cup {NoDispatcher},
                             leased : BOOLEAN]]
  /\ batch \in [Dispatchers -> [claimed : SUBSET Commands, enqueued : SUBSET Commands]]
  /\ job \in [JobIds -> {"none", "waiting", "active", "finished"}]
  /\ asked \in SUBSET Commands
  /\ lost \in BOOLEAN

\* No command is lost between the two stores: once its outbox event is published
\* (and will never be dispatched again), an unexecuted command has a waiting job,
\* whatever dispatchers crash, lose their claim or enqueue twice, until Redis
\* itself loses data.
PublishedIsQueued ==
  ~lost => \A c \in Commands :
    cmd[c].status = "pending" /\ event[c].published => job[Execute(c)] = "waiting"

\* Every requested command is executed: pending is not a place to stay, given
\* dispatchers and slots that keep working and a queue that keeps its jobs.
PendingIsExecuted ==
  \A c \in Commands : cmd[c].status = "pending" ~> cmd[c].status # "pending" \/ lost

\* Also where Redis loses its jobs, again and again, an operator who replays the
\* queue gets every pending command executed.
ReplayRestoresLostJobs ==
  WF_pipelineVars(ReplayQueue) =>
    \A c \in Commands : cmd[c].status = "pending" ~> cmd[c].status # "pending"

(* What the documentation and the API say and the code does not do.            *)

\* milestone-2-mailbox-workspace-and-commands.md:42: retryable provider failures use
\* exponential backoff up to the attempt limit, so a command below the limit whose
\* worker reported such a failure is executed again.  No lease runs out here:
\* ScheduleRetry, not lease recovery, is what makes a command retryable.
RetryIsExecuted ==
  [](\A c \in Commands : cmd[c].status = "running" => cmd[c].leased) => \A c \in Commands :
    cmd[c].status = "retryable" /\ cmd[c].attempts < MaxAttempts ~> cmd[c].status # "retryable"

\* routes/drafts.ts answers an accepted verification request with 202 and
\* verification_pending: the queue holds a job that performs it.
AcceptedIsQueued == \A c \in asked : job[Verify(c)] \in {"waiting", "active"}
==============================================================================

# AI-Email-Organizer: a verification project

TLA+ models of the AI-Email-Organizer backend (a Fastify API, a worker process,
PostgreSQL, Redis/BullMQ and the Gmail API), TLC configurations that check them on
small instances, and TLAPS proofs of what matters most for every instance. Paths
below are relative to the repository root. `PROJECT.json` maps each definition to
the lines it models and lists the runs, mutants, findings, hazards and theorems.

## 1. Inventory

| Component | State it keeps | Operations | Talks to |
|---|---|---|---|
| Draft commands (`packages/database/src/repositories/provider-command.ts`, `draft-repository.ts`, `apps/worker/src/provider-command-executor.ts`, `apps/api/src/routes/drafts.ts`) | rows of `drafts`, `provider_commands`; claims and leases in them; one in-memory job per worker slot | create, update, send; claim, load, preflight, mark, call, confirm, retry, fail, require recovery; verify; recover leases; repair drafts | Gmail (calls), pipeline (jobs) |
| Command pipeline (`packages/jobs`, `worker-services.ts`, `scripts/operations.ts`) | `outbox_events` rows with dispatch claims; the `gmail-commands` queue | claim, enqueue, publish, release; take, finish, stall, evict a job; replay; request verification | draft and thread commands |
| Thread commands (`routes/thread-mutations.ts`, executor) | the same command rows; the labels in the thread projection | archive, mark unread | pipeline, Gmail, projection |
| Mailbox synchronisation (`mailbox-sync-repository.ts`, `worker-services.ts`, `routes/gmail-webhook.ts`) | applied, pending and baseline history identifiers; advisory lock per mailbox; `gmail-sync` queue; mailbox status | notify, initial and incremental sync, history recovery, reconciliation, disconnect, reconnect | Gmail history, projection |
| Thread projection (`thread-projection-repository.ts`, written also by `routes/mailbox-workspace.ts`, `routes/mailbox-search.ts`) | `threads`, `messages` | upsert, delete | sync, listings and searches, thread commands, read models |
| Write permission and OAuth (`routes/permissions.ts`, `google-auth.ts`) | permission row with attempt and expiry; Redis OAuth state; encrypted token | connect, request upgrade, callback, decline, expire | Google OAuth, command requests |
| Thread provider bindings (`thread-provider-binding-repository.ts`) | binding rows with generation, transition log | resolve or create, deactivate, reactivate, retire, replace | projection |
| Priority corrections (`priority-correction-repository.ts`) | current correction, append-only transitions | prioritize, not important, undo, list | priority policy |
| Priority policy (`packages/priority-policy`) | none (pure functions) | eligibility, evaluation, admission, ordering, collection, replay | corrections, projection |
| Worker runtime (`worker-runtime.ts`) | runtime status, scheduler flags, heartbeat rows | start, tick, drain, stop | all worker services |
| Web client (`apps/web`) | browser state | poll a command, edit, undo | API |
| Gmail adapter, API guards, read models, configuration, observability, encryption | none that components share | | |

The behaviours that are hard:

- **Crash windows around an irreversible call.** Gmail's `drafts.create` and
  `drafts.send` cannot be undone and are not idempotent. The executor commits a
  durable marker before it calls; everything that follows (worker death, lost
  answers, lost acknowledgements of the marker's own commit, lease expiry) must
  treat "marked" as "may have happened".
- **Interleaving.** API requests, several worker slots, the lease recovery and the
  repair scan write the same rows in separate transactions, and Gmail changes under
  them: the user edits, deletes or sends the same draft from Gmail.
- **Two stores.** A command lives in PostgreSQL and its wake-up in Redis; they are
  joined by an outbox whose dispatchers crash, overlap and lose their leases, and by
  a queue that deduplicates on a job identifier, redelivers stalled jobs, keeps
  finished ones and can lose everything.
- **Something must happen eventually**: running commands settle, pending commands
  run, orphaned drafts surface, notified history is applied.
- **Watermarks** of the synchronisation move while notifications, reconciliation and
  recovery overlap.
- **Two rows locked in two orders.** A write grant and a read-only connection update the
  permission and the account of one mailbox in opposite order, between requests to
  Google that take their time.
- **READ COMMITTED.** The bindings and corrections of a thread rely on row locks, unique
  constraints and pointers that are compared again after a wait.
- **Ending.** A worker gives back what it took while jobs, timers and failures go on.

What makes each component correct:

- draft commands: a mutation reaches Gmail at most once; failed and retryable mean
  "never called"; two keys never stand for the same mutation; an active command owns
  its draft; a ready draft has nothing in flight; the recipient gets one copy; the
  projection never claims more than Gmail did; claims fence; settled rows are final;
- pipeline: a published command is queued; every pending command runs;
- thread commands: the projection loses INBOX or gains UNREAD only after Gmail did,
  and a concurrent sync cannot undo it for good;
- synchronisation: the applied watermark never covers a change that the projection
  does not hold; a pending notification is never dropped; one sync per mailbox;
- write permission: only the attempt that is pending grants, and `write_granted` means
  that the stored credential carries the scope;
- bindings and corrections: one current row, a linear history, idempotent requests;
- priority policy: a total deterministic order, exact caps, tiers by the table.

## 2. Structure

The most important behaviour comes first; each module extends or instantiates only
those above it in its own line.

1. `DraftCommands`: the draft and command rows, executor, verification, maintenance and
   Gmail. Its abstract specification is `MutationPromise`, the refinement mapping is in
   `DraftPromise`. Proofs: `DraftCommandsProofs` (typing, call safety, ownership, distinct
   mutations, fencing, finality, single delivery, truthful confirmations, the refinement).
2. `CommandPipeline`: composes `DraftCommands` with outbox, dispatchers and queue;
   safety, and liveness with crashes and with Redis data loss. Proofs: in
   `DraftCommandsProofs`, which extends `CommandPipeline`.
3. `MailboxSync`: watermarks, lock, overlapping jobs, recovery from expired history,
   reconciliation, disconnect. `MailboxListing` composes it with the listings that write
   the same rows outside the lock. Proofs of both: `MailboxSyncProofs`.
4. `ThreadCommands`: archive and mark-unread on the claim protocol, composed with the
   labels that the synchronisation copies. Proofs: `ThreadCommandsProofs`.
5. `WritePermission`: upgrade attempts, connections, disconnection. Proofs:
   `WritePermissionProofs`.
6. `ThreadRows`, the rows that `ProviderBindings` and `PriorityCorrections` lock, with the
   abstract specification `LinearHistory` that both implement thread by thread. Proofs:
   `ProviderBindingsProofs`, `PriorityCorrectionsProofs`.
7. `PriorityPolicy`, `PriorityCollection`, `PriorityReplay`: the pure stages, and an
   evaluation, its recording and its replay as a state machine. Proofs:
   `PriorityReplayProofs`.
8. `WorkerRuntime`: start, drain and shutdown of one worker process. Proofs:
   `WorkerRuntimeProofs`.

Modules whose name begins with `MC` hold the instances that TLC checks.

## 3. Modules

### DraftCommands

| Variable | Code |
|---|---|
| `draft[d]` | a row of `drafts`: status, revision, `confirmed_revision`, `last_command_id` (`last`), `gmail_draft_message_id` (`provider`, 0 for NULL) |
| `cmd[c]` | a row of `provider_commands`: type, draft, revision from the payload, status, `attempt_count`, whether `next_attempt_at` has passed (`due`), `active_claim_id` (`owner`), whether the lease is live (`leased`), `provider_execution_started_at` (`marked`) |
| `work[w]` | a job slot: the control point of `executeProviderCommand` or of a verification, its command, the Gmail version it observed |
| `gmail[d]` | Gmail: live Draft resources of the draft, their newest version, Sent messages with its Message-ID |
| `request[c]` | the mutation request: in flight, answered, failed |
| `calls[c]`, `applied` | history variables: requests issued, requests that took effect |

Each action is one transaction, one Gmail read or one Gmail request, because the code
awaits between any two. A command identifier stands for an idempotency key (unique per
mailbox in the table); a repeated request with a known key finds the command and
changes nothing, which is a stuttering step. Contents, addresses and MIME are reduced
to revisions and versions.

- Requests: `CreateDraft`, `UpdateDraft`, `SendDraft` (`draft-repository.ts`).
- Execution: `ClaimCommand`, `LoadDraft`, `PreflightGetDraft`, `CompleteConflict`,
  `MarkProviderExecutionStarted`, `CallProvider`, `CompleteConfirmed`, and the catch
  block as `CatchBeforeMarker` and `CatchAfterMarker` over the error classes of
  `classifyGmailMutationError`. `Abandon` is a lost claim, a throw or a crash.
  The commit of the marker may succeed without the worker learning it (`unseen`).
- Verification: `ClaimRecovery`, `SearchByMessageId`, `CompleteRecovered`,
  `ReleaseRecoveryClaim`.
- Maintenance: `RecoverExpiredLeases`, `RepairInconsistentDraftStates`.
- Time: `LeaseExpires`, `BackoffElapses`.
- Gmail: `GmailAccepts` and `GmailRefuses` a request, also after the worker gave up
  on it; `GmailUserEdits`, `GmailUserDeletes`, `GmailUserSends`.

### MutationPromise and DraftPromise

`MutationPromise` says what a user is promised about a mutation: called at most once;
failed only if never called, and then never called; in doubt at most, never retried
then, and resolved only by evidence. `DraftPromise` maps a command's status to a stage
and Gmail's state to evidence, and states `PromiseKept`.

### CommandPipeline

Extends `DraftCommands` with `event` (the outbox row), `batch` (what a dispatcher has
claimed and enqueued), `job` (the queue, by job identifier `execute` or `verify` of a
command), `asked` (verification requests answered with 202) and the history variable
`lost` (Redis has dropped a job that was queued). The slots of
`DraftCommands` now wake only on a job. Outbox actions are the three statements of
`provider-command.ts` (`ClaimOutboxEvents`, `MarkOutboxPublished`,
`ReleaseOutboxClaim`) around `EnqueueProviderCommand`. The queue is external: an add
with an identifier it still holds is ignored, finished jobs are kept until
evicted, an active job whose worker died stalls and is redelivered or given up.

### MailboxSync

| Variable | Code |
|---|---|
| `history`, `horizon` | Gmail: the changes of the mailbox in order, and how far back `history.list` still goes (external) |
| `account` | row of `mailbox_accounts`: status, whether `encrypted_refresh_token` is set |
| `state` | row of `mailbox_sync_state`: applied, pending and baseline history identifiers, 0 for NULL |
| `rows[m]` | row of `messages`: the newest change it reflects, 0 without a row |
| `lock` | holder of `pg_try_advisory_lock` on the mailbox |
| `queue` | kinds of jobs waiting on `gmail-sync` |
| `pass[s]` | a job slot inside `processSync`: control point, what it has read and not yet written |

A history identifier is a position in Gmail's history. Threads and messages are read as
they are at that moment, so what a pass collects may be newer than the range it lists,
and two reads of one pass may differ. Each Gmail request, each statement outside a
transaction and each transaction is an action; a thread's `threads.get` is one read.

- Requests: `Notification` (the webhook; late, repeated, out of order), `NotificationLost`
  (recorded but not queued), `ScheduleReconciliation`, `Disconnect`, `Reconnect`. The
  enqueue is joined to the write before it, because a waiting job may be taken at any
  later moment. When a reconciliation falls due is left open.
- A pass: `StartSync` or `MailboxLeaseUnavailable`, `CheckAccount`, `ReadState`; for an initial
  pass `CaptureBaseline` (skipped when an earlier baseline is resumed), `BeginInitialSync`,
  `ListThreads` (any part of the live threads may be in the window), `HydrateWindowThread`;
  then `ListHistory` (which may lag behind) or `HistoryGap`, `ResolveMessage`,
  `HydrateChangedThread`, and `AwaitHistory` or `Commit`.
- Outages: `Fail` (with the recorded refusal of the token), `Crash`, `Stall` (a
  second delivery of a job that still runs). Attempt counts are reduced to the choice
  between queued again and given up (`RetryOrDrop`).

The reasons of a job matter only as `sync` or `history_expired`. The summary columns of
`threads` are not modelled.

### MailboxListing

Adds `listing[r]`, a thread that the listing or search of a reader has read from Gmail and
not yet written (`ReadThread`, `ProjectThread`), and the history variable `overwritten`, the
messages last written by a listing that a commit overtook.

### ThreadCommands

| Variable | Code |
|---|---|
| `labels` | Gmail: the labels of the one thread after each of its changes, so its length is the history identifier (external) |
| `request[c][a]` | the `threads.modify` call of attempt `a` of command `c`, and the change it made |
| `cmd[c]`, `work[w]` | a row of `provider_commands`; a slot inside `executeProviderCommand` |
| `row` | `provider_labels` of the row of `threads`, `NoThread` without one |
| `sync` | `applied_history_id` and the pass that holds the lease of the mailbox |
| `seen`, `overtaken` | history: the change the row was last copied from; whether a confirmation has since edited a row that already showed a later change |

A thread command has no marker: `LoadCommand` is the last look at the claim, `CallGmail`
follows it unfenced, and `RecoverExpiredLease` returns every expired command to the queue.
`CompleteConfirmed` edits the labels that the row has by then and settles the command in one
transaction; `CatchConfirmed`, `CatchCall` and `CatchBeforeCall` are the branches of the
catch block; `Abandon` is a stale claim or a crash. `GmailModifies` may take effect although
its caller is gone, or answer with an error. A pass of the synchronisation is `ListHistory`,
`ReadThread`, `CommitPass`; everything else about passes is in `MailboxSync`.

### WritePermission

| Variable | Code |
|---|---|
| `permission` | the row of `mailbox_permission_state`: capability and `upgrade_attempt_id` |
| `account` | the row of `mailbox_accounts`: status, and what the stored refresh token allows |
| `state[a]` | the key `write-oauth:<state>` of an attempt in Redis |
| `stage[c]` | how far an attempt, or a read-only connection, has come |
| `closing[a]` | the capability a failed or declined attempt will write |
| `permissionLock`, `accountLock` | row locks held by a transaction between its statements |
| `disconnecting` | a disconnection has read the mailbox and not yet written |

An attempt goes through `Start`, `RecordAttempt`, `Callback`, then `RejectSession`, `Decline` or
`FindMailbox`, `ExchangeWriteUpgradeCode` or `ExchangeFails`, `UpdatePermission`, `Grant` or
`GrantFails`, and `CloseAttempt`. A connection is `UpsertAccount`, then `Connect` or
`ConnectFails`; it locks the account first and the permission second, a grant the other way
round, and `BreakDeadlock` is PostgreSQL ending one of the two. `RequireReauthorization`,
`BeginDisconnect` and `Disconnect` write the account only; the first, a pass that began
earlier, does not look at the status it overwrites. `ApiCrashes` rolls back.

### ThreadRows, LinearHistory, ProviderBindings, PriorityCorrections

`ThreadRows` has the rows of `application_threads`: the pointer `current[t]` and the holder of
the row lock. `LinearHistory` says what a history of transitions promises: it grows at its
end, by one entry or by two in one transaction, and its head is its end.

`ProviderBindings` adds `claims[l]` (`thread_provider_bindings`: a locator belongs to one
thread), `transitions`, and `call[c]`, a caller between two statements. Resolving is
`SelectLocator`, `SelectProposed`, `CreateBinding` and, after a unique violation,
`FindAgain`; suspending, retiring and reactivating are `SelectThread` and `WriteTransition`;
replacing is `SelectThread` and `WriteReplacement`; `Rollback` may end any of them. A
statement sees what is committed when it begins; one that waited for a lock tests its row
again and returns nothing if the pointer has moved (`Granted`, `Reselected`).

`PriorityCorrections` adds `correction[t]`, `corrections` and `request[c]`. A mutation is
`LockThread`, `LookUpKey`, `Decide`, a listing is `ListCurrent`, `ListRows`. `refused` remembers
one command that was refused, so that a later acceptance of the same command is seen.

### PriorityPolicy, PriorityCollection, PriorityReplay

Pure operators with the names of the functions: `EffectiveTimestamp`,
`CompareThreadIds`, `EvaluatePriorityPolicy`, `AdmitPriorityPolicyCandidates`,
`OrderPriorityPolicyCandidates`, `CreatePriorityPolicyCollectionEvaluation`. A stage that
throws returns `Invalid`. Identifiers are sequences of bytes, times are numbers, the constants
of the policy are parameters. In `PriorityReplay` the stages are steps (`Admit`, `Evaluate`,
`Order`, `Collect`), `Record` serializes the envelope, `AlterRecording` and `ReorderSnapshot` are
what may happen to a fixture, and `VerifyPriorityPolicyReplay` is the verification. The
reference definitions the properties compare with (`Newer`, `Precedes`, `Group`) are written
from the age of a thread, not from the operators.

### WorkerRuntime

| Variable | Code |
|---|---|
| `status`, `at` | the status of the runtime; the await that `startWorkerRuntime` or `stopWorkerRuntime` is in |
| `consumer[c]`, `active` | a BullMQ worker: absent, running, pausing, paused, closed; those with a job |
| `timers`, `tasks`, `beat` | interval handles; scheduled tasks under way; what the heartbeat under way has seen |
| `row` | `worker_heartbeats.status` |
| `open`, `failures`, `exit` | resources not closed; what failed; the exit code |

Each await is an action with a success and a failure. Jobs, ticks and tasks go on between
them, also a heartbeat that began before the shutdown.

## 4. Runs

| Run | Instance | Question |
|---|---|---|
| `DraftSafety` | 1 draft, 3 keys, 2 slots, 2 attempts, 2 versions | can any order of requests, crashes, lease expiries, redeliveries and edits in Gmail call Gmail twice, fail a call that may have happened, lose the owner of a draft, deliver a second copy or confirm what Gmail does not hold; does the detailed protocol keep `MutationPromise` |
| `Settlement` | a confirmed draft and 1 further key, 2 slots, 1 dispatcher, 2 versions | does every running command settle and every orphaned draft surface, however slots die in execution and in verification |
| `Outbox` | 1 key, 2 dispatchers, Redis may lose its jobs | is a published command queued, is a pending one executed, and does the replay restore what Redis lost |
| `MailboxSync` | 1 message, 2 slots, a history of 3 | does the applied watermark ever cover a change that the rows miss, is a pending notification dropped, and does the mailbox catch up after lost notifications, history gaps and abandoned recoveries |
| `Listing` | the same and 1 listing | do listings harm the rows only when a commit overtook them |
| `ThreadCommands` | 1 key, 2 slots, 2 attempts, a user who acts until the history is 3 long | is a confirmed command ever shown as failed, and does the row end as Gmail has it whatever the order of calls, confirmations and passes |
| `WritePermission` | 2 attempts, 2 connections | do permission and credential agree, can an attempt take a grant away, does every request end |
| `Bindings` | 2 threads, 2 locators, 2 callers, 4 transitions | are histories linear, does a superseded locator end retired, is anybody refused who is not behind |
| `Corrections` | 2 threads, 2 callers, 2 keys, 2 transitions | are histories linear, does a command get one verdict, is a listed history whole |
| `PriorityReplay` | up to 3 threads, cap 2, tolerance 1 | does the cap keep the newest, is the order the product's, does the envelope hide a gap, does a replay confirm exactly what was evaluated |
| `WorkerRuntime` | 2 consumers, 3 schedulers | what a finished process leaves, whether its row and exit code tell the truth, whether the shutdown ends |
| `LostRetry` | a confirmed draft and 1 further key, 1 slot, 1 dispatcher, 1 version | the disagreement of section 6: TLC finds it, by an update whose preflight read fails transiently |

Bounds. In `DraftSafety` three keys are a create, an update and a send of one draft, the
longest chain that the statuses allow without repeating a type; two slots are the least
that makes a stale worker race its successor; two attempts are a first attempt and a
retry, with `MaxAttempts = 2` so that the cap is reached; two versions are one Gmail-side
edit on top of what the commands write. `AttemptBound` bounds `attempt_count` (the code does
not: lease recovery makes a command retryable whatever its count) and `VersionBound` the
edits of the Gmail user. `Settlement` begins where a draft has been created, a state
that `DraftSafety` reaches, so that the next command can be an edit or a send and both kinds of
job run. Two dispatchers are the least that race.

In the synchronisation a history of three is a change before the baseline, one between the
baseline and a read, and one after it, or a deletion in either place; `HistoryBound` bounds
the history, and with it how often Gmail forgets changes. One message is enough to fall
behind its watermark: messages meet only in what a thread's hydration returns beyond what was
asked, and that can only be newer. Two slots are the least that compete for the lock.

In `ThreadCommands` one command with two slots and two attempts is the least where a late call
of the first attempt meets the second; commands of one thread meet only in Gmail and in the
row, where each edits its own label, and the user's changes stand for the other
commands too. In `WritePermission` a second attempt replaces a first one, and a second
connection comes after a grant. In `Bindings` four transitions are a binding of
each thread and a replacement (two at once); in `Corrections` two are one that another
command expects. The bounds of histories are the sets of identifiers: a step that would need
one more does not happen. In `PriorityReplay` a cap of two forces an admission among
three, the times lie before, at, within and beyond the tolerance, one identifier is
larger in one byte and smaller in the next, and the snapshots include repeated, foreign and
misplaced threads.

Deadlock checking is off in every run: when all keys are used and settled, and the
bounds reached, the system is at rest. Drafts, keys, callers and slots are symmetric in
runs without liveness; liveness runs use no symmetry.

Fairness. Leases run out because time passes; `worker-runtime.ts:155-160` starts the
schedulers on intervals for as long as the worker runs, so the two maintenance jobs,
and the dispatch of the outbox, happen again and again (weak fairness). That is all
`Settlement` assumes: slots and the dispatcher may die at any step. In `FairPipeline` a slot
finishes its job (weak), and an enqueue, a publication or a take that is possible again
and again eventually succeeds (strong: Redis and the database are not down for ever).
Nothing is assumed of users or Gmail, and crashes are never forced or forbidden. The
replay is the operator's step after a Redis recovery
(`docs/operations/migration-backup-recovery.md`), so it is not part of the fairness of
`FairPipeline`: `ReplayRestoresLostJobs` has it as a hypothesis of the formula, and
only `LostRetry` grants it outright (`ReplayedPipeline`, from a confirmed draft),
because there it makes the counterexample stronger.

In the synchronisation a pass goes on and the reconciliation scheduler runs (weak). The
eight attempts of a job are spread over minutes, so a waiting job that finds the lock free
again and again is started once, and a history listing that is asked again and
again is up to date once (both strong). That outages end and that the mailbox stays
connected are hypotheses of `CatchesUp`, not fairness. A step that an outage
shares with ordinary work (a failure that leaves what a retry leaves) counts as ordinary.

`ThreadCommands` needs the synchronisation alone (weak fairness of a pass; `CatchesUp` of
`MailboxSync` is why it may be assumed): commands may stay where they are.
In `WritePermission` Google answers or times out, waiters of a row lock queue, so a request whose
row is free again and again gets it (strong), and PostgreSQL looks for deadlocks (weak);
the owner need not come back from Google. In `WorkerRuntime` calls of the database and
Redis end or fail, jobs end and the drain's timer fires (weak); a consumer may take for
ever to close.

## 5. Proofs

The proofs hold for any sets of drafts, keys, messages, slots, attempts, connections,
consumers, schedulers, threads and clients, and any bounds. Those
of the draft commands assume `SentinelAssumption` (the three sentinels are not drafts,
keys or slots) and `BoundAssumption` (the three bounds are natural numbers), both
declared in `DraftCommands`; those of the synchronisation assume `SyncAssumption` (each
message has a thread, the sentinel is no slot, the history bound is a positive
number), declared in `MailboxSync`; `PermissionAssumption`, `RuntimeAssumption` and
`ThreadAssumption` say as little of the constants of `WritePermission`, `WorkerRuntime` and
`ThreadCommands`, `PipelineAssumption` and `ListingAssumption` of those of `CommandPipeline` and
`MailboxListing`, and `RowAssumption`, `BindingAssumption` and `CorrectionAssumption` of those of
`ThreadRows`, `ProviderBindings` and `PriorityCorrections`, and `PolicyAssumption`,
`CollectionAssumption` and `ReplayAssumption` of those of the three modules of the priority policy
(sentinels are outside the sets they
stand beside, the heartbeat is a scheduler, there is at least one transition identifier,
bounds are natural numbers, no two threads have the same UUID). TLC evaluates them in the runs.

### Draft commands

`DraftCommandsProofs` proves `TypeCorrect`, `NoSecondCall` and `FailureIsCertain`.
None of the properties is inductive alone. The argument has two layers:

- `RowInv` is `TypeOK` and `RowsOK`: a used key has a type and a draft, a busy slot and a
  request in flight have a command that exists. Typing alone does not survive a
  step that reads a row through a slot.
- `CallInv` carries the marker argument. `UnmarkedUntilExecuted`: a pending or
  retryable command is not marked, so a new claim starts before the marker.
  `CalledIsMarked`: a command that has called Gmail is marked. `SlotsRespectMarker`: a slot
  past the marker holds a marked command; one that still owns its command
  before the marker holds an unmarked one; one about to call has not called yet.
  `OnePastMarker`: at most one slot is past the marker of a command.
  `FailedIsUncalled`: a failed command was not called and no slot is about to. Each step
  needs the others: marking requires an owned, unmarked command, hence (by the
  second and third) an uncalled one and (by the third) no other slot past the marker;
  a call needs a slot past the marker that has not called, hence the first call.

It then proves `OneOwner` and `DistinctMutations`, from
`OwnInv`, the conjunction of `ActiveCommandOwnsDraft` and `NoDuplicateMutation` with what
they need: `CommandsHaveDrafts` (a used key names an existing draft; otherwise a
second create could name the same one), `SendsBlockDraft` (a draft that was ever asked to
be sent has a status that no further request accepts) and `RevisionsBounded` (no
command carries a revision above its draft's, so a new revision is new). Each proof has one step per action of `Next`.

The rest of `DraftCommandsProofs` proves what is left of `DraftSafety`, so that every property of
that run is a theorem:

- `OnlyTheClaimSettles` (`ClaimFencing`) needs no more than `RowInv`: each action that takes a
  running command out of that status either tests the claim or meets an expired lease.
- `SettledRowsStay` (`SettledIsFinal`) needs `FinalUnleased`, that a settled command has no
  lease: otherwise a late slot of its would still pass the test of the claim. For the drafts
  it needs `OwnInv`: the repair and the confirmations write a draft only as its owner, and the
  owner of a draft in `recovery_required` is not running, so only its verification is left.
- `OneCopy` (`SingleDelivery`) from `GmailInv`: a request in flight has been counted as a call,
  what took effect has been answered, and whatever exists of a draft in Gmail comes from the
  one create (`CopyHasCreate`). With `AtMostOneCall` no create takes effect twice, with
  `NoDuplicateMutation` there is no second create.
- `ClaimsAreEvident` (`ConfirmedByGmail`) from `OutcomeInv`, which adds what a verification is
  about to record (`FoundIsEvident`) and what a ready draft shows (`ReadyIsConfirmed`).
  Evidence in Gmail is never taken back (`EvidenceStays`), so a verification may write what it
  has found later.
- `ReadyMeansQuiescent` (`ReadyIsQuiescent`) from the invariants above: an unsettled command would
  own the draft, so it would not be ready; a request in flight was called, so its command has
  not failed; and a create or update that succeeded has taken effect and has its answer.
- `PromiseImplemented` (`PromiseKept`): the initial states map to initial states, and each
  action is shown to be one step of `MutationPromise` on one command or none that it sees. The
  steps rest on all the invariants and on `UnusedKeys`, that a key nobody has used stands for
  nothing, without which the effect of another command could be evident for it.

### Command pipeline

`PipelineImplementsCommands` says that every step of the pipeline is a step of `DraftCommands` or
leaves its variables alone, since the pipeline takes the steps over whole. So whatever is
proved of the draft commands holds behind outbox and queue; `PipelineCallsOnce` draws that
conclusion for the call to Gmail.

`PublishedStaysQueued` (`PublishedIsQueued`) is about the transport alone, and still needs the
commands: a queue drops a job when a slot takes it, so the claim must tell. `FirstInv` says
that a command not executed yet is due and that no slot works on it; hence a slot that takes
its job claims it (`ExecuteNotClaimed` is possible only for others), and whatever finishes a job
finishes one of a command that has been claimed (`SlotsKeepOutbox`). `FirstStep` and `SlotStep` give what
a step of the draft commands may do to such a command, once for all actions. `OutboxInv` adds what
a dispatcher has in hand: a key that nobody has used is in no batch, published nowhere and
without a job, and as long as a command is pending and Redis has lost nothing, its job is
absent or waiting, and waiting once any dispatcher has added it. Two dispatchers may hold the
same event, after the lease of the first has expired; the invariant therefore speaks of every
batch and of no holder.

### Synchronisation

`MailboxSyncProofs` proves `SyncTypeCorrect` from `TypeInv`, which adds to `SyncTypeOK` the
types of the history and of what a pass holds. Its two halves, `DataTyped` and
`PassTyped`, are shown apart, because most steps touch one of them. `NewestIsMax` (a
set of identifiers has a largest member) comes from the well-foundedness of the naturals.

It also proves `PendingSurvives` and `WatermarkCovered`. The first needs only `TypeInv`. For the second,
`AppliedIsCovered` says nothing of a pass under way; the inductive `CoverInv` does:

- `DeletionIsLast`: Gmail changes no message after deleting it.
- `CoveredThroughout`: every change between baseline and applied is in the row, not
  only the newest. The newest alone does not survive a step; by `DeletionIsLast` the
  two say the same (`CoveredNewest`).
- `Anchored`: the watermark is still where the pass under way found or put it. It holds
  because only the holder of the lock moves it (`OthersIdle`); an unlocked pass would
  break it.
- `Collecting`: for every change in the range a pass has listed, its message is
  still to be resolved, its thread still to be read, or a reading at least as new is
  held (unless Gmail has deleted the message since); and a reading is never older than
  the range, so it cannot take back what was covered.

At a commit nothing is left to resolve or read, so `Collecting` gives the
changes of the range (`CommitRange`), and an incremental pass keeps the changes covered
before (`CommitKeepsCovered`); `Anchored` says that the two ranges meet.

`OnlyOvertakenListingsRegress` (`CoveredUnlessOverwritten` of `MailboxListing`) reuses these lemmas: they
are stated for `CoverInv(S)`, the invariant that covers the messages of a set `S`. The passes keep
it for any `S`; a commit even widens it by what it writes (`CommitCover`). Under listings `S` is
the set of messages not `overwritten`, and `StillNew` says what a listing that no commit has
overtaken holds: nothing older than the watermark covers, and no deleted message. It holds
when the thread is read (`VersionCovers`) and stays, because only a commit raises the watermark
(`AppliedRaisedByCommit`).

### Thread commands, write permission, worker runtime

`ThreadCommandsProofs` proves `FailedWasNotConfirmedAlways`. The property speaks of the last attempt
only, so the invariant must say what earlier attempts can still do: slots work on attempts
that have begun, no two on the same one (`AttemptsNumbered`); the call of an attempt
is there exactly when its slot has made it (`CallsNumbered`); and when a command
has failed, no slot is left in its last attempt and that attempt's call is over
(`FailedIsOver`). The lemmas on rows and slots (`Claimed`, `Settled`, `SlotEnds`) say once what
claiming, settling and ending change.

`WritePermissionProofs` proves `GrantIsStillPending`, `GrantMatchesCredentialAlways` and
`GrantOutlivesAttemptsAlways`. The invariant is `LockDiscipline`: who holds the lock of a row
is in the step that took it, and the attempt whose grant is under way is still the pending
one, because everybody who would change that has to wait for the row.

`WorkerRuntimeProofs` proves `ExitIsHonestAlways` and `RowNeverRevivesAlways`. The invariant has one
part for each stretch of the shutdown: a consumer that rests has no job (`RestingIsIdle`), what
the drain, the row's last write and the closing of resources have left behind (`DrainDone`,
`RowDone`, `CloseDone`), and what the exit code says (`ExitDone`).

### Provider bindings

`ProviderBindingsProofs` proves all three properties of the run `Bindings`. `Inv` says what the tables
hold (`RowsInv`) and what each statement of a call under way has found (`Consistent`). Every writing
statement is first reduced to one description, `Commits`: thread `t` moves to transition `i` of
locator `l` by one row or two, each with a fresh identifier, continuing the history from its
head. That `Commits` keeps the rows, and is a step of `LinearHistory`, is proved once.

- `BindingsAreLinear` (`HistoriesAreLinear`) is the refinement. A statement that waited for the row
  lock reads the pointer again, so its row continues the head it finds then.
- `SupersededStaysRetired` (`SupersededIsRetired`) needs `Ended`: a transition that none of its locator
  follows is the thread's state or a retirement. Without the retired row that a replacement
  adds, the old locator's last row would be neither.
- `RefusalsAreJustified` (`RefusedOnlyIfBehind`) goes through the statements that refuse. What
  `Consistent` adds is what a caller knows: the transition it names was once the state of its
  thread (`Known`), so if the pointer is elsewhere now, the thread has moved on.

### Priority corrections

`PriorityCorrectionsProofs` proves all three properties of the run `Corrections`, for histories of any
length. `CorrectionsAreLinear` is the refinement of `LinearHistory`. That everything recorded is
reached from the pointer would be an induction along the history; the invariant says it of sets
instead (`Connected`): a set that has the head and, with an entry, the one before it, has
the whole history. A commit makes the history longer by an entry that nothing else follows
(`CommitKeepsHistory`), so the set for the longer history, cut back, serves the shorter one.

`CorrectionHistoryIsWhole` uses it in both directions: from the head `Connected` gives the whole
history; from an earlier entry the head is not reached, because nothing precedes
by way of it (`HeadIsLast`).

`CorrectionVerdictsAgree` needs that a refused command can never succeed later (`Hopeless`). A
command is refused because its key stands for something else, because the thread has moved on,
or because it already says so. The first stays, since keys are never freed; the other two stay
because a pointer never returns to an identifier it has left: a client can only expect what it
has seen (`Seen`), and a commit uses an identifier that nobody has seen (`RefusedStays`).
That a `decide` still finds its command unrecorded rests on the row lock (`Bystander`).

### Priority policy

`PriorityReplayProofs` proves all five properties of the run `PriorityReplay`, for snapshots of any size
and any values of the policy's constants. Three stages sort, so a stable sort is defined by rank
(`Sorted`: a position is preceded by what is less and by what is tied and earlier), and what is
needed of it is proved once:

- `SortedPermutes`: for a comparison that leaves nothing tied, the sorted sequence is a permutation
  of the given one and ascends. It rests on `RankTakesEveryPlace`, that the ranks are all the
  numbers below the length.
- `SortedIgnoresOrder`: two listings of the same elements sort to the same sequence.

That the code's comparisons are such is `ComparisonIsLexicographic` (the bytes of identifiers; two
threads differ in one), `TimesAreOrdered` (newest first, unknown last), `CandidatesAreOrdered` and
`BoundAreOrdered`; they use the assumptions on the constants that UUIDs are distinct and
that the mark for an unknown time is no number. `AdmissionPlaces`, `OrderedPlaces` and
`AcceptedEnvelope` then say what each stage returns; `EvaluationGoesThrough`, `OrderingAccepts`, `OrderIsAccepted` and
`EnvelopeIsCanonical` say that each result passes the validation of the next stage. A loop between two
definitions of the same thing is closed by `ChronologyIsTheComparison` and `OrderIsPrecedence`: the product's words
(`Newer`, `Precedes`, `Group`) against the operators.

The inductive invariant is `Pipeline`, that each variable holds what its stage makes of the
input, conjoined with `StagesCompose` and `ReplayIsExact` (`ReplayInvariant`). `ReorderSnapshot` changes the
input under the other variables; that the invariant survives it is `AdmissionIgnoresOrder`.
The theorems are `AdmissionKeepsTheNewest`, `TheOrderIsCanonical`, `TheStagesCompose`, `TheEnvelopeIsTruthful` (with
`GapsAreCounted`: the counts by position are those by thread) and `TheReplayIsExact`.

Where several guards of a `CASE` hold, TLA+ leaves open which branch is meant, and TLC takes the
first. The proofs of the policy and of the bindings cannot, and so every verdict that tests
conditions in an order (`EvaluateCorrection`, the verdict of a replay, `Verdict` of a replacement) is a chain
of `IF` in the order of the code.

### What stays with TLC

The liveness properties, which are out of the prover's reach: `RunningSettles` and
`OrphanSurfaces` (`Settlement`), `PendingIsExecuted` and `ReplayRestoresLostJobs` (`Outbox`),
`CatchesUp`, `RequestsEnd`, `ShutdownCompletes` and `RowFollowsGmail`. Every invariant and action
property that a passing run checks is a theorem.

## 6. Where the code and its documentation disagree

`LostRetry` has a run of its own:

- nothing executes a command again whose worker reported a retryable provider failure: its
  event is published, its finished job blocks a new one, also for the operator's replay
  (`docs/architecture/milestone-2-mailbox-workspace-and-commands.md:42`). `RetryIsExecuted` has
  as its hypothesis that no lease runs out, so the counterexample is a retry that
  `scheduleRetryFromClaim` schedules (`provider-command.ts:18`) after a transient preflight read.

Five more statements of the documents are written down in the modules as properties, and TLC
refutes them; they have no run that stays:

- `NoOverwrittenEdit` (`DraftCommands`): the preflight read and `drafts.update` are two requests; a
  Gmail edit between them is overwritten (`provider-command-executor.ts:145` says it is
  prevented).
- `UncertaintyShownOnDraft` (`DraftCommands`): an uncertain create or update moves the command,
  not the draft, to `recovery_required` (`docs/architecture/draft-lifecycle.md:26,31`). For the
  same reason the `ready` of line 37, `recovery_required --(one verified provider match)--> ready
  | sent`, never happens: a verified create takes its draft from `creating` to `ready`
  (`draft-repository.ts:315`), and a draft in `recovery_required` belongs to an uncertain send,
  which a match takes to `sent`, or is an orphan that the repair surfaced, which no verification
  takes anywhere. `SettledIsFinal` says only what the code and the line agree on: without a
  verified match the draft stays.
- `AcceptedIsQueued` (`CommandPipeline`): a second verification request is answered with 202 while
  the retained job of the first swallows it (`apps/api/src/routes/drafts.ts:228`).
- `AppliedIsCovered` under `ListingSpec`: a listing reads a thread, a pass commits a later change of
  it, and the listing writes its older reading over it
  (`apps/api/src/routes/mailbox-workspace.ts:57`); the applied identifier then covers a change
  that the row does not show (`docs/architecture/milestone-1-gmail-sync.md:25,30`). `Listing`
  shows that this is the only way.
- `ActiveHasToken` (`MailboxSync`): `applyProcessedHistory` sets the status to active
  unconditionally (`mailbox-sync-repository.ts:89`), so a pass that was running when the user
  disconnected revives the mailbox without a token
  (`docs/architecture/data-state-model-v1.md:106`).

What else the modelling has shown, as far as the code goes:

- Thread commands. A confirmation that a later change of the thread and its copy have
  overtaken edits a row that already shows that change, and the row stays wrong until the thread
  changes again: the exception of `RowFollowsGmail`. `docs/architecture/product-architecture-v1.md:59`
  says that Gmail is re-read after a command; the executor asks for no pass. A slot that
  stalls before its call makes it even when its command has been settled meanwhile, and a
  command whose lease expired repeats an archive although the user has moved the
  thread back. Lease recovery ignores the attempt count, so the eight attempts of the same
  line bind reported failures only.
- Write permission. The owner is redirected to `success` although the attempt was no longer
  pending and nothing was granted (`permissions.ts:55-56`). A disconnection during the exchange
  leaves a fresh token on a disconnected mailbox (`data-state-model-v1.md:106`). The ten-minute
  pending expiry of `docs/architecture/milestone-4-write-upgrade.md:9` is stored and never
  enforced; only the state in Redis expires.
- Worker runtime. `pause(false)` waits for the jobs before the race against the deadline
  begins, so a job that hangs is not bounded by the drain period of
  `docs/architecture/worker-runtime.md:15`; `ShutdownCompletes` therefore assumes that jobs
  end. Scheduled tasks under way are not awaited before the pool closes, and a signal during
  the start is not handled.
- Bindings. A superseded locator stays claimed by its old thread, so a thread that
  reappears under it is a conflict (`docs/product/priority-policy-v1.md:665` wants it resolved). A
  `FOR UPDATE` that waited for a changed row returns none, and the caller gets NOT_FOUND
  where CONFLICT is meant; `RefusedOnlyIfBehind` holds for both answers.
- Corrections. The two reads of a listing make a sound chain look broken when a correction is
  committed between them (`HistoryIsWhole` says exactly when).
- Priority policy. A complete delivery of a READY mailbox is said to represent the complete
  candidate scope (`docs/product/priority-policy-v1.md:1505-1514`) and represents at most the 100
  admitted candidates.

## 7. Not modelled

- Web client: rendering, and polling that the modelled components answer.
- Gmail adapter: building MIME and displaying HTML (string processing without state). What
  the adapter asks of Gmail, and how it classifies errors, is part of the modules that
  call it.
- API surface: sessions, CSRF and rate limits guard requests and change nothing here. Read
  models are pure queries. Configuration, contracts, metrics, encryption: no shared state.
- Migrations and scripts, but for the replay of the queue and the bindings that migration 016
  creates.
- Of the synchronisation: the renewal of Gmail watches (notifications come at any time or
  never), the counts and summaries of `threads`. A recovery after a history gap removes no rows,
  so a message deleted during the gap keeps its row; `Covered` starts at the baseline for that
  reason.
- Of the commands: encryption of payloads, the permission check of a request, and the
  `WORKER_ID` that a replacement process may share with the one it overlaps.
- Of the priority policy: malformed values that the types exclude.

In `DraftCommands` a mailbox is always the same one: commands of several mailboxes share
no row, and what a missing or inactive mailbox does to a command is an error class of
the catch block. The same holds for bindings and corrections: what another owner or mailbox
asks for is not found.

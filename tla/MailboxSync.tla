---------------------------- MODULE MailboxSync ----------------------------
(***************************************************************************)
(* Synchronisation of one mailbox: Gmail's history, the watermarks of         *)
(* mailbox_sync_state, the gmail-sync queue, and the passes that workers run   *)
(* under the mailbox's advisory lock.                                          *)
(*                                                                         *)
(* A history identifier is a position in Gmail's history; 0 is SQL's NULL.  A  *)
(* row of messages is reduced to the history identifier of the newest change  *)
(* it reflects, 0 when there is no row.                                        *)
(***************************************************************************)
EXTENDS Integers, Sequences, FiniteSets

CONSTANTS
  Messages,
  Threads,
  ThreadOf,      \* the thread of each message
  Syncers,       \* job slots of the gmail-sync consumers
  NoSyncer,
  HistoryBound   \* longest history

ASSUME SyncAssumption ==
  /\ ThreadOf \in [Messages -> Threads]
  /\ NoSyncer \notin Syncers
  /\ HistoryBound \in Nat \ {0}

VARIABLES
  history,      \* Gmail: the changes of the mailbox, by history identifier
  horizon,      \* Gmail: history.list serves what follows this identifier
  account,      \* row of mailbox_accounts: status, whether a token is stored
  state,        \* row of mailbox_sync_state
  rows,         \* rows of messages
  lock,         \* holder of the mailbox's advisory lock
  queue,        \* kinds of jobs waiting on gmail-sync
  pass          \* what each slot is doing

workers == <<lock, queue, pass>>
gmail == <<history, horizon>>
vars == <<gmail, account, state, rows, workers>>

Larger(a, b) == IF a > b THEN a ELSE b
Newest(S) == IF S = {} THEN 0 ELSE CHOOSE i \in S : \A j \in S : j <= i

------------------------------------------------------------------------------
(* Gmail (external).  Messages and threads are read as they are.                *)

CurrentId == Len(history)

ChangesOf(m, S) == {i \in S : history[i].message = m}

Deleted(m, ids) == \E i \in ChangesOf(m, ids) : history[i].kind = "delete"

\* The version of a message, 0 when it does not exist.
Version(m) ==
  IF Deleted(m, 1..CurrentId) THEN 0 ELSE Newest(ChangesOf(m, 1..CurrentId))

\* What threads.get returns of a thread.
ContentOf(t) == [m \in Messages |-> IF ThreadOf[m] = t THEN Version(m) ELSE 0]

LiveThreads == {ThreadOf[m] : m \in {n \in Messages : Version(n) # 0}}

Nothing == [m \in Messages |-> 0]
Idle == [pc |-> "idle", kind |-> "none", initial |-> FALSE, start |-> 0, pending |-> 0,
         latest |-> 0, todo |-> {}, threads |-> {}, deleted |-> {},
         seed |-> Nothing, fresh |-> Nothing]

\* The mailbox has just been connected and its first synchronisation queued.
Init ==
  /\ \E m \in Messages : history = << [message |-> m, kind |-> "update"] >>
  /\ horizon = 0
  /\ account = [status |-> "active", token |-> TRUE]
  /\ state = [applied |-> 0, pending |-> 0, baseline |-> 0]
  /\ rows = Nothing
  /\ lock = NoSyncer
  /\ queue = {"sync"}
  /\ pass = [s \in Syncers |-> Idle]

GmailChanges(m) ==
  /\ CurrentId < HistoryBound
  /\ ~Deleted(m, 1..CurrentId)
  /\ history' = Append(history, [message |-> m, kind |-> "update"])
  /\ UNCHANGED <<horizon, account, state, rows, workers>>

GmailDeletes(m) ==
  /\ CurrentId < HistoryBound
  /\ Version(m) # 0
  /\ history' = Append(history, [message |-> m, kind |-> "delete"])
  /\ UNCHANGED <<horizon, account, state, rows, workers>>

\* Changes are kept for a limited time.
GmailForgets(id) ==
  /\ horizon < id
  /\ horizon' = id
  /\ UNCHANGED <<history, account, state, rows, workers>>

------------------------------------------------------------------------------
(* Requests for a synchronisation.  A waiting job may be taken at any later      *)
(* moment, so the enqueue is joined to the write that precedes it; what is lost   *)
(* between the two is an action of its own.                                      *)

\* enqueueSync: reasons other than history_expired are treated alike.
EnqueueSync(kind) == queue' = queue \cup {kind}

RecordPendingHistory(id) ==
  /\ account.status = "active"
  /\ state' = [state EXCEPT !.pending = Larger(@, id)]

\* The Gmail webhook; Pub/Sub delivers late, repeatedly and out of order.
Notification(id) ==
  /\ RecordPendingHistory(id)
  /\ EnqueueSync("sync")
  /\ UNCHANGED <<gmail, account, rows, lock, pass>>

NotificationLost(id) ==
  /\ RecordPendingHistory(id)
  /\ UNCHANGED <<gmail, account, rows, workers>>

\* claimDueReconciliations and the enqueue.  When the mailbox falls due is left
\* open; a worker that dies between the two, or fails and releases the claim,
\* changes nothing but that moment.
ScheduleReconciliation ==
  /\ account.status = "active"
  /\ EnqueueSync("sync")
  /\ UNCHANGED <<gmail, account, state, rows, lock, pass>>

Disconnect ==
  /\ account.status # "disconnected"
  /\ account' = [status |-> "disconnected", token |-> FALSE]
  /\ UNCHANGED <<gmail, state, rows, workers>>

\* The OAuth callback; it may die before it queues the synchronisation.
Reconnect ==
  /\ account' = [status |-> "active", token |-> TRUE]
  /\ EnqueueSync("sync") \/ UNCHANGED queue
  /\ UNCHANGED <<gmail, state, rows, lock, pass>>

------------------------------------------------------------------------------
(* A pass of processSync.                                                        *)

SetPass(s, p) == pass' = [pass EXCEPT ![s] = p]

\* Mutant: two passes of one mailbox may run at a time.
StartWithoutLease(s, kind) ==
  /\ pass[s].pc = "idle"
  /\ kind \in queue
  /\ lock' = s
  /\ queue' = queue \ {kind}
  /\ SetPass(s, [Idle EXCEPT !.pc = "locked", !.kind = kind])
  /\ UNCHANGED <<gmail, account, state, rows>>

\* withMailboxLease: the job is taken and the lock is free.
StartSync(s, kind) ==
  /\ pass[s].pc = "idle"
  /\ kind \in queue
  /\ lock = NoSyncer
  /\ lock' = s
  /\ queue' = queue \ {kind}
  /\ SetPass(s, [Idle EXCEPT !.pc = "locked", !.kind = kind])
  /\ UNCHANGED <<gmail, account, state, rows>>

\* The job is retried later, or has used up its attempts.
MailboxLeaseUnavailable(kind) ==
  /\ \E s \in Syncers : pass[s].pc = "idle"
  /\ kind \in queue
  /\ lock # NoSyncer
  /\ queue' = queue \ {kind}
  /\ UNCHANGED <<gmail, account, state, rows, lock, pass>>

\* Mutant: the lock is kept when the job ends.
EndPassLocked(s) ==
  /\ SetPass(s, Idle)
  /\ UNCHANGED lock

\* The job ends, whatever its outcome, and the lock with it.
EndPass(s) ==
  /\ SetPass(s, Idle)
  /\ lock' = IF lock = s THEN NoSyncer ELSE lock

\* The job failed: queued again until its attempts are used up.
RetryOrDrop(s) == queue' \in {queue, queue \cup {pass[s].kind}}

\* A token that cannot be decrypted throws before failures are recorded.
CheckAccount(s) ==
  /\ pass[s].pc = "locked"
  /\ \/ /\ account.status = "active" /\ account.token
        /\ SetPass(s, [pass[s] EXCEPT !.pc = "ready"])
        /\ UNCHANGED <<lock, queue>>
     \/ /\ account.status = "active" /\ ~account.token
        /\ EndPass(s)
        /\ RetryOrDrop(s)
     \/ /\ account.status # "active"
        /\ EndPass(s)
        /\ UNCHANGED queue
  /\ UNCHANGED <<gmail, account, state, rows>>

\* runIncrementalSync falls back to an initial sync when nothing is applied yet;
\* an earlier baseline is taken up again unless its history has expired.
ReadState(s) ==
  LET p == pass[s]
      incremental == p.kind = "sync" /\ state.applied # 0
      baseline == IF p.kind = "sync" THEN state.baseline ELSE 0
      next ==
        IF incremental
        THEN [p EXCEPT !.pc = "history", !.start = state.applied, !.pending = state.pending]
        ELSE [p EXCEPT !.pc = IF baseline = 0 THEN "capture" ELSE "begin",
                       !.initial = TRUE, !.start = baseline]
  IN
  /\ p.pc = "ready"
  /\ SetPass(s, next)
  /\ UNCHANGED <<gmail, account, state, rows, lock, queue>>

CaptureBaseline(s) ==
  /\ pass[s].pc = "capture"
  /\ SetPass(s, [pass[s] EXCEPT !.pc = "begin", !.start = CurrentId])
  /\ UNCHANGED <<gmail, account, state, rows, lock, queue>>

BeginInitialSync(s) ==
  /\ pass[s].pc = "begin"
  /\ state' = [state EXCEPT !.applied = 0, !.baseline = pass[s].start]
  /\ SetPass(s, [pass[s] EXCEPT !.pc = "window"])
  /\ UNCHANGED <<gmail, account, rows, lock, queue>>

\* The newest threads, as many as the configured window holds.
ListThreads(s, window) ==
  /\ pass[s].pc = "window"
  /\ SetPass(s, [pass[s] EXCEPT !.pc = "seeding", !.threads = window])
  /\ UNCHANGED <<gmail, account, state, rows, lock, queue>>

HydrateWindowThread(s, t) ==
  /\ pass[s].pc = "seeding"
  /\ t \in pass[s].threads
  /\ SetPass(s, [pass[s] EXCEPT
       !.threads = @ \ {t},
       !.seed = [m \in Messages |-> IF ThreadOf[m] = t THEN ContentOf(t)[m] ELSE @[m]]])
  /\ UNCHANGED <<gmail, account, state, rows, lock, queue>>

ReadyToList(s) ==
  \/ pass[s].pc = "history"
  \/ pass[s].pc = "seeding" /\ pass[s].threads = {}

\* changedMessageIds: history.list may lag behind the notifications and the
\* messages themselves, and serves its changes up to "upTo".
ListHistory(s, upTo) ==
  LET p == pass[s]
      served == (p.start + 1)..upTo
      deleted == {m \in Messages : Deleted(m, served)}
  IN
  /\ ReadyToList(s)
  /\ p.start >= horizon
  /\ SetPass(s, [p EXCEPT !.pc = "resolving",
                          !.todo = {m \in Messages : ChangesOf(m, served) # {}} \ deleted,
                          !.deleted = deleted,
                          !.latest = upTo])
  /\ UNCHANGED <<gmail, account, state, rows, lock, queue>>

\* Mutant: the recovery is left to a later job.
HistoryGapIgnored(s) ==
  /\ ReadyToList(s)
  /\ pass[s].start < horizon
  /\ EndPass(s)
  /\ UNCHANGED queue
  /\ UNCHANGED <<gmail, account, state, rows>>

\* history.list answers 404 when it no longer holds the changes since the start: a
\* recovery with a new baseline is queued, unless this pass is one, which fails.
HistoryGap(s) ==
  /\ ReadyToList(s)
  /\ pass[s].start < horizon
  /\ EndPass(s)
  /\ IF pass[s].kind = "sync" THEN EnqueueSync("history_expired") ELSE RetryOrDrop(s)
  /\ UNCHANGED <<gmail, account, state, rows>>

\* getMessage; a message that is gone is left out.
ResolveMessage(s, m) ==
  /\ pass[s].pc = "resolving"
  /\ m \in pass[s].todo
  /\ SetPass(s, [pass[s] EXCEPT
       !.todo = @ \ {m},
       !.threads = IF Version(m) # 0 THEN @ \cup {ThreadOf[m]} ELSE @])
  /\ UNCHANGED <<gmail, account, state, rows, lock, queue>>

HydrateChangedThread(s, t) ==
  /\ pass[s].pc = "resolving"
  /\ pass[s].todo = {}
  /\ t \in pass[s].threads
  /\ SetPass(s, [pass[s] EXCEPT
       !.threads = @ \ {t},
       !.fresh = [m \in Messages |-> IF ThreadOf[m] = t THEN ContentOf(t)[m] ELSE @[m]]])
  /\ UNCHANGED <<gmail, account, state, rows, lock, queue>>

Collected(s) == pass[s].pc = "resolving" /\ pass[s].todo = {} /\ pass[s].threads = {}

\* shouldRetryForUnavailableHistory, on the pending identifier read at the start.
NotificationAhead(s) ==
  /\ ~pass[s].initial
  /\ pass[s].latest = pass[s].start
  /\ pass[s].pending > pass[s].start

AwaitHistory(s) ==
  /\ Collected(s)
  /\ NotificationAhead(s)
  /\ EndPass(s)
  /\ RetryOrDrop(s)
  /\ UNCHANGED <<gmail, account, state, rows>>

\* upsertThreadProjection: a message absent from the thread keeps its row.
Upsert(content, table) == [m \in Messages |-> IF content[m] # 0 THEN content[m] ELSE table[m]]

\* Mutant: the window is written after the changes that were listed later.
PersistedWindowLast(p) ==
  Upsert(p.seed, Upsert(p.fresh, [m \in Messages |-> IF m \in p.deleted THEN 0 ELSE rows[m]]))

\* The window of an initial sync, then persistHistoryBatch.
Persisted(p) ==
  Upsert(p.fresh, [m \in Messages |-> IF m \in p.deleted THEN 0 ELSE Upsert(p.seed, rows)[m]])

\* Mutant: the pending identifier is cleared whatever it is.
ApplyAndForgetPending(id) ==
  [applied |-> Larger(state.applied, id), pending |-> 0, baseline |-> state.baseline]

ApplyProcessedHistory(id) ==
  LET applied == Larger(state.applied, id) IN
  [applied |-> applied, pending |-> IF state.pending <= applied THEN 0 ELSE state.pending,
   baseline |-> state.baseline]

\* One transaction; an incremental pass starts over while a newer notification
\* is pending.
Commit(s) ==
  LET p == pass[s] IN
  /\ Collected(s)
  /\ ~NotificationAhead(s)
  /\ rows' = Persisted(p)
  /\ state' = ApplyProcessedHistory(p.latest)
  /\ account' = [account EXCEPT !.status = "active"]
  /\ IF ~p.initial /\ state'.pending > state'.applied
     THEN SetPass(s, [Idle EXCEPT !.pc = "ready", !.kind = p.kind]) /\ UNCHANGED lock
     ELSE EndPass(s)
  /\ UNCHANGED <<gmail, queue>>

\* Gmail or the database fails; a refused token is recorded on the account.
Fail(s) ==
  /\ pass[s].pc \notin {"idle", "locked"}
  /\ EndPass(s)
  /\ RetryOrDrop(s)
  /\ account' \in {account, [account EXCEPT !.status = "reauthorization_required"]}
  /\ UNCHANGED <<gmail, state, rows>>

\* The process dies; the queue redelivers the stalled job or gives it up.
Crash(s) ==
  /\ pass[s].pc # "idle"
  /\ EndPass(s)
  /\ RetryOrDrop(s)
  /\ UNCHANGED <<gmail, account, state, rows>>

\* The queue redelivers the job of a worker that is slow, not dead.
Stall(s) ==
  /\ pass[s].pc # "idle"
  /\ EnqueueSync(pass[s].kind)
  /\ UNCHANGED <<gmail, account, state, rows, lock, pass>>

------------------------------------------------------------------------------
Environment ==
  \/ \E m \in Messages : GmailChanges(m) \/ GmailDeletes(m)
  \/ \E id \in 1..CurrentId : GmailForgets(id)
  \/ Disconnect
  \/ Reconnect

Requests ==
  \/ \E id \in 1..CurrentId : Notification(id)
  \/ ScheduleReconciliation

PassStep(s) ==
  \/ CheckAccount(s)
  \/ ReadState(s)
  \/ CaptureBaseline(s)
  \/ BeginInitialSync(s)
  \/ \E window \in SUBSET LiveThreads : ListThreads(s, window)
  \/ \E t \in Threads : HydrateWindowThread(s, t) \/ HydrateChangedThread(s, t)
  \/ \E upTo \in pass[s].start..CurrentId : ListHistory(s, upTo)
  \/ HistoryGap(s)
  \/ \E m \in Messages : ResolveMessage(s, m)
  \/ AwaitHistory(s)

Kinds == {"sync", "history_expired"}

\* Everything but commits and outages.
Background ==
  \/ Environment
  \/ Requests
  \/ \E kind \in Kinds : MailboxLeaseUnavailable(kind) \/ \E s \in Syncers : StartSync(s, kind)
  \/ \E s \in Syncers : PassStep(s)

Outage ==
  \/ \E id \in 1..CurrentId : NotificationLost(id)
  \/ \E s \in Syncers : Fail(s) \/ Crash(s) \/ Stall(s)

Calm == Background \/ \E s \in Syncers : Commit(s)

Next == Calm \/ Outage

Spec == Init /\ [][Next]_vars

(* Fairness.  Passes go on and the reconciliation scheduler runs (weak).  A waiting *)
(* job that finds the mailbox free again and again is started once, because its     *)
(* retries are spread out; history.list, asked again and again, is up to date once  *)
(* (strong).                                                                       *)
FairSpec ==
  /\ Spec
  /\ \A s \in Syncers : WF_vars(PassStep(s) \/ Commit(s))
  /\ \A kind \in Kinds : SF_vars(\E s \in Syncers : StartSync(s, kind))
  /\ \A s \in Syncers : SF_vars(ListHistory(s, CurrentId))
  /\ WF_vars(ScheduleReconciliation)

------------------------------------------------------------------------------
(* Properties.                                                                   *)

Row == [applied : 0..CurrentId, pending : 0..CurrentId, baseline : 0..CurrentId]

\* The lock is held exactly by the slot that runs a pass, and no watermark is
\* ahead of Gmail.
SyncTypeOK ==
  /\ account \in [status : {"active", "reauthorization_required", "disconnected"}, token : BOOLEAN]
  /\ horizon \in 0..CurrentId
  /\ state \in Row
  /\ rows \in [Messages -> 0..CurrentId]
  /\ queue \subseteq Kinds
  /\ \A s \in Syncers : lock = s <=> pass[s].pc # "idle"
  /\ \A s \in Syncers : pass[s].latest <= CurrentId /\ pass[s].start <= CurrentId

\* What the applied watermark says of a message: a change it covers is in the
\* message's row, which is gone if the change is a deletion and may be missing or
\* older if Gmail has deleted the message since.
Covered(m) ==
  LET ids == ChangesOf(m, (state.baseline + 1)..state.applied) IN
  ids # {} =>
    IF history[Newest(ids)].kind = "delete"
    THEN rows[m] = 0
    ELSE rows[m] >= Newest(ids) \/ Deleted(m, 1..CurrentId)

\* The applied watermark never runs ahead of the projection
\* (worker-services.ts:82 commits both, under the lock of line 21), whatever the
\* overlap of passes, stalls, notifications and recoveries.
AppliedIsCovered == \A m \in Messages : Covered(m)

\* Only a commit at or beyond a pending notification clears it, although
\* notifications arrive while a pass that read an older one runs
\* (mailbox-sync-repository.ts:80).
PendingIsKept ==
  [][state'.pending # state.pending =>
       state'.pending > state.pending \/ state'.applied >= state.pending]_vars

\* A mailbox that is active has a token: disconnecting it is final until the
\* user reconnects (mailbox-lifecycle.ts:8).
ActiveHasToken == account.status = "active" => account.token

\* Once outages end, a mailbox that stays connected catches up with Gmail,
\* through lost notifications, history gaps and abandoned recoveries.
CatchesUp ==
  <>[][Calm]_vars /\ <>[](account.status = "active" /\ account.token)
    => <>[](state.applied = CurrentId)
=============================================================================

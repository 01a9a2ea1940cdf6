---------------------------- MODULE ThreadCommands ----------------------------
(***************************************************************************)
(* Archiving a thread and marking it unread: the commands of one thread, the  *)
(* worker slots that execute them, the thread in Gmail and its row in         *)
(* `threads`, which confirmed commands and the synchronisation of the mailbox *)
(* both write.                                                              *)
(*                                                                         *)
(* Unlike a draft command, a thread command writes no marker before it calls   *)
(* Gmail: it is taken to be safe to repeat, so an expired lease returns it to  *)
(* the queue whatever its slot had done, and nothing is fenced between the     *)
(* load of the command and the call.  Gmail's history is reduced to the        *)
(* changes of this thread, of which labels keeps the result; a pass of the     *)
(* synchronisation, which MailboxSync models, to its three accesses.           *)
(***************************************************************************)
EXTENDS Integers, Sequences

CONSTANTS
  Commands,      \* idempotency keys, one per command
  Workers,       \* concurrent job slots of the worker processes
  NoCommand, NoWorker,
  NoThread,      \* no thread in Gmail, no row in the database
  MaxAttempts,   \* retryPolicy.maxAttempts
  AttemptBound,  \* model bound on attempt_count
  HistoryBound   \* model bound on the changes made in Gmail by its user

ASSUME ThreadAssumption ==
  /\ NoCommand \notin Commands
  /\ NoWorker \notin Workers
  /\ MaxAttempts \in Nat
  /\ AttemptBound \in Nat
  /\ HistoryBound \in Nat

VARIABLES
  labels,    \* Gmail: the labels of the thread after each of its changes
  request,   \* Gmail: the modify call of each attempt of each command
  cmd,       \* rows of provider_commands
  work,      \* what each worker slot is doing: control point, command, attempt
  row,       \* provider_labels of the row of threads
  sync,      \* applied_history_id, and the pass under the mailbox's lease
  seen,      \* history: the change the row was last copied from
  overtaken  \* history: a confirmation edited a row copied after its own change

gmailVars == <<labels, request>>
commandVars == <<cmd, work>>
rowVars == <<row, seen, overtaken>>
vars == <<gmailVars, commandVars, rowVars, sync>>

Labels == {"INBOX", "UNREAD"}
Types == {"archive", "unread"}
Attempts == 1..AttemptBound

CurrentId == Len(labels)
Now == labels[CurrentId]

Idle == [pc |-> "idle", cmd |-> NoCommand, attempt |-> 0]
NoRow == [type |-> "none", status |-> "none", attempts |-> 0, owner |-> NoWorker, leased |-> FALSE]
NotCalled == [state |-> "none", at |-> 0]
NoPass == [pc |-> "idle", latest |-> 0, at |-> 0]

\* The thread is in the inbox, read, synchronised, and no command has been asked for.
Init ==
  /\ labels = <<{"INBOX"}>>
  /\ request = [c \in Commands |-> [a \in Attempts |-> NotCalled]]
  /\ cmd = [c \in Commands |-> NoRow]
  /\ work = [w \in Workers |-> Idle]
  /\ row = Now
  /\ sync = [applied |-> 1, pass |-> NoPass]
  /\ seen = 1
  /\ overtaken = FALSE

------------------------------------------------------------------------------
(* Gmail (external).                                                          *)

\* The user moves the thread out of the inbox or back, marks it read or unread,
\* or deletes it for good.
UserChanges ==
  /\ CurrentId < HistoryBound
  /\ Now # NoThread
  /\ \/ \E l \in Labels :
          labels' = Append(labels, IF l \in Now THEN Now \ {l} ELSE Now \cup {l})
     \/ labels' = Append(labels, NoThread)
  /\ UNCHANGED <<request, commandVars, rowVars, sync>>

\* archiveThread removes INBOX, markThreadUnread adds UNREAD.
Modified(type, L) == IF type = "archive" THEN L \ {"INBOX"} ELSE L \cup {"UNREAD"}

\* A modify call takes effect, even one its caller no longer waits for.  The answer
\* may be an error all the same (a 5xx); a call that changes no label leaves no
\* history.
GmailModifies(c, a) ==
  LET L == Modified(cmd[c].type, Now) IN
  /\ request[c][a].state = "flying"
  /\ Now # NoThread
  /\ labels' = IF L = Now THEN labels ELSE Append(labels, L)
  /\ \E answer \in {"ok", "error"} :
       request' = [request EXCEPT ![c][a] = [state |-> answer, at |-> Len(labels')]]
  /\ UNCHANGED <<commandVars, rowVars, sync>>

\* A refusal, an overload, a deleted thread, or a call that never arrives.
GmailRefuses(c, a) ==
  /\ request[c][a].state = "flying"
  /\ request' = [request EXCEPT ![c][a].state = "refused"]
  /\ UNCHANGED <<labels, commandVars, rowVars, sync>>

------------------------------------------------------------------------------
(* The API route and the claim protocol.                                       *)

\* A repeated request with the same key finds the command and changes nothing.
CreateThreadCommand(c, type) ==
  /\ cmd[c].status = "none"
  /\ row # NoThread
  /\ cmd' = [cmd EXCEPT ![c] = [NoRow EXCEPT !.type = type, !.status = "pending"]]
  /\ UNCHANGED <<gmailVars, work, rowVars, sync>>

ClaimCommand(w, c) ==
  LET n == cmd[c].attempts + 1 IN
  /\ work[w].pc = "idle"
  /\ cmd[c].status \in {"pending", "retryable"}
  /\ n <= AttemptBound
  /\ cmd' = [cmd EXCEPT ![c] = [@ EXCEPT !.status = "running", !.attempts = n,
                                         !.owner = w, !.leased = TRUE]]
  /\ work' = [work EXCEPT ![w] = [pc |-> "claimed", cmd |-> c, attempt |-> n]]
  /\ UNCHANGED <<gmailVars, rowVars, sync>>

Executing(w) ==
  LET c == work[w].cmd IN
  cmd[c].status = "running" /\ cmd[c].owner = w /\ cmd[c].leased

Settle(c, status) ==
  cmd' = [cmd EXCEPT ![c] = [@ EXCEPT !.status = status, !.owner = NoWorker, !.leased = FALSE]]

Finish(w) == work' = [work EXCEPT ![w] = Idle]

LeaseExpires(c) ==
  /\ cmd[c].leased
  /\ cmd' = [cmd EXCEPT ![c].leased = FALSE]
  /\ UNCHANGED <<gmailVars, work, rowVars, sync>>

\* Neither marked nor referring to a result: always to be repeated.
RecoverExpiredLease(c) ==
  /\ cmd[c].status = "running"
  /\ ~cmd[c].leased
  /\ Settle(c, "retryable")
  /\ UNCHANGED <<gmailVars, work, rowVars, sync>>

------------------------------------------------------------------------------
(* The executor.                                                              *)

\* loadClaimedCommand is the last look at the claim before the call.
LoadCommand(w) ==
  /\ work[w].pc = "claimed"
  /\ Executing(w)
  /\ work' = [work EXCEPT ![w].pc = "loaded"]
  /\ UNCHANGED <<gmailVars, cmd, rowVars, sync>>

CallGmail(w) ==
  /\ work[w].pc = "loaded"
  /\ work' = [work EXCEPT ![w].pc = "calling"]
  /\ request' = [request EXCEPT ![work[w].cmd][work[w].attempt].state = "flying"]
  /\ UNCHANGED <<labels, cmd, rowVars, sync>>

Call(w) == request[work[w].cmd][work[w].attempt]

\* The UPDATE of threads, on the labels the row has by now.
ApplyConfirmedThreadProjection(type) == row' = Modified(type, row)

\* completeConfirmedMutation.
CompleteConfirmed(w) ==
  /\ work[w].pc = "calling"
  /\ Call(w).state = "ok"
  /\ Executing(w)
  /\ row # NoThread
  /\ ApplyConfirmedThreadProjection(cmd[work[w].cmd].type)
  /\ Settle(work[w].cmd, "succeeded")
  /\ overtaken' = (overtaken \/ Call(w).at < seen)
  /\ Finish(w)
  /\ UNCHANGED <<gmailVars, seen, sync>>

\* Mutant: a database error after Gmail's answer counts as a failed command.
FailConfirmed(w) ==
  /\ work[w].pc = "calling"
  /\ Call(w).state = "ok"
  /\ Executing(w)
  /\ Settle(work[w].cmd, "failed")
  /\ Finish(w)
  /\ UNCHANGED <<gmailVars, rowVars, sync>>

\* Gmail confirmed, but the row is gone or its transaction fails.
CatchConfirmed(w) ==
  /\ work[w].pc = "calling"
  /\ Call(w).state = "ok"
  /\ Executing(w)
  /\ Settle(work[w].cmd, "recovery_required")
  /\ Finish(w)
  /\ UNCHANGED <<gmailVars, rowVars, sync>>

ScheduleRetry(c) == Settle(c, IF cmd[c].attempts >= MaxAttempts THEN "failed" ELSE "retryable")

\* The errors of a call: "transient" is rate_limited or transient_provider_failure,
\* "definitive" any other refusal, "uncertain" a request without a response,
\* "unknown" everything else.
ErrorsOf(state) ==
  {"uncertain"}
    \cup (IF state \in {"refused", "error"} THEN {"transient", "unknown"} ELSE {})
    \cup (IF state = "refused" THEN {"definitive"} ELSE {})

CatchCall(w) ==
  LET c == work[w].cmd IN
  /\ work[w].pc = "calling"
  /\ Executing(w)
  /\ \E error \in ErrorsOf(Call(w).state) :
       CASE error = "transient" -> ScheduleRetry(c)
         [] error = "uncertain" -> Settle(c, "recovery_required")
         [] error \in {"definitive", "unknown"} -> Settle(c, "failed")
  /\ Finish(w)
  /\ UNCHANGED <<gmailVars, rowVars, sync>>

\* An invalid payload, a missing mailbox or its credential, a failing database.
CatchBeforeCall(w) ==
  /\ work[w].pc \in {"claimed", "loaded"}
  /\ Executing(w)
  /\ Settle(work[w].cmd, "failed")
  /\ Finish(w)
  /\ UNCHANGED <<gmailVars, rowVars, sync>>

\* The claim is lost and the job ends ("stale"), or the slot dies.
Abandon(w) ==
  /\ work[w].pc # "idle"
  /\ Finish(w)
  /\ UNCHANGED <<gmailVars, cmd, rowVars, sync>>

------------------------------------------------------------------------------
(* The synchronisation.  A pass that fails before its commit leaves nothing; it   *)
(* is as if it had not begun.                                                    *)

\* history.list: what follows applied_history_id.
ListHistory ==
  /\ sync.pass.pc = "idle"
  /\ sync.applied < CurrentId
  /\ sync' = [sync EXCEPT !.pass = [NoPass EXCEPT !.pc = "listed", !.latest = CurrentId]]
  /\ UNCHANGED <<gmailVars, commandVars, rowVars>>

\* threads.get, later: it may return more than the listed changes.
ReadThread ==
  /\ sync.pass.pc = "listed"
  /\ sync' = [sync EXCEPT !.pass.pc = "read", !.pass.at = CurrentId]
  /\ UNCHANGED <<gmailVars, commandVars, rowVars>>

DeletionListed == \E i \in (sync.applied + 1)..sync.pass.latest : labels[i] = NoThread

\* Mutant: provider_labels is missing from the columns the upsert overwrites.
CopyLabelsOnce(L) == row' = IF row = NoThread THEN L ELSE row

\* upsertThreadProjection.
CopyLabels(L) == row' = L

\* persistHistoryBatch and applyProcessedHistory, in one transaction.
CommitPass ==
  LET at == sync.pass.at IN
  /\ sync.pass.pc = "read"
  /\ IF labels[at] # NoThread
     THEN CopyLabels(labels[at]) /\ seen' = at /\ overtaken' = FALSE
     ELSE IF DeletionListed
     THEN row' = NoThread /\ seen' = at /\ overtaken' = FALSE
     ELSE UNCHANGED rowVars
  /\ sync' = [applied |-> sync.pass.latest, pass |-> NoPass]
  /\ UNCHANGED <<gmailVars, commandVars>>

------------------------------------------------------------------------------

ThreadStep(c) ==
  \/ \E type \in Types : CreateThreadCommand(c, type)
  \/ \E w \in Workers : ClaimCommand(w, c)
  \/ LeaseExpires(c)
  \/ RecoverExpiredLease(c)
  \/ \E a \in Attempts : GmailModifies(c, a) \/ GmailRefuses(c, a)

WorkerStep(w) ==
  \/ LoadCommand(w) \/ CallGmail(w)
  \/ CompleteConfirmed(w) \/ CatchConfirmed(w) \/ CatchCall(w) \/ CatchBeforeCall(w)
  \/ Abandon(w)

SyncStep == ListHistory \/ ReadThread \/ CommitPass

Next ==
  \/ UserChanges
  \/ \E c \in Commands : ThreadStep(c)
  \/ \E w \in Workers : WorkerStep(w)
  \/ SyncStep

Spec == Init /\ [][Next]_vars

\* MailboxSync shows that a mailbox catches up; commands are owed nothing.
FairSpec == Spec /\ WF_vars(SyncStep)

------------------------------------------------------------------------------
(* Properties.                                                                 *)

\* A command shown as failed was not confirmed by Gmail in its last attempt: an
\* error after the confirmation asks for a recovery instead (catch block of
\* executeProviderCommand, docs/architecture/milestone-2-mailbox-workspace-and-commands.md).
FailedWasNotConfirmed ==
  \A c \in Commands : \A a \in Attempts :
    cmd[c].status = "failed" /\ a = cmd[c].attempts => request[c][a].state # "ok"

\* Two writers, one row: whatever the order in which confirmations and passes
\* write it, the row ends with the labels the thread has in Gmail.  The exception
\* is the confirmation that comes after a pass has copied a later change: it edits
\* labels it knows nothing of, and no pass follows.
RowFollowsGmail == <>[](row = Now \/ overtaken)
===============================================================================

---------------------------- MODULE DraftCommands ----------------------------
(***************************************************************************)
(* Gmail draft commands: the `drafts` and `provider_commands` tables, the   *)
(* API transactions that open a command, the worker slots that execute and  *)
(* verify commands under a leased claim, the maintenance jobs, and the      *)
(* Gmail account the commands act on.                                       *)
(*                                                                         *)
(* Every action is one database transaction, one Gmail read or one Gmail    *)
(* request: the code awaits between any two of them, so workers, users, the *)
(* maintenance jobs and Gmail interleave there.  A command identifier        *)
(* stands for an idempotency key (the table is unique in it), a worker slot  *)
(* for its claim identifier: a slot runs one job at a time and takes a claim *)
(* by overwriting the previous one, so no two live claims are confused.      *)
(* Time is abstract: a lease is live until LeaseExpires, a retry is due      *)
(* after BackoffElapses.  Which queue job wakes a slot is the business of     *)
(* CommandPipeline; here any slot may pick up any claimable command.          *)
(***************************************************************************)
EXTENDS Integers, FiniteSets

CONSTANTS
  Drafts,        \* application drafts
  Commands,      \* idempotency keys, one per command
  Workers,       \* concurrent job slots of the worker processes
  NoDraft, NoCommand, NoWorker,
  MaxAttempts,   \* retryPolicy.maxAttempts
  AttemptBound,  \* model bound on attempt_count
  VersionBound   \* model bound on the versions a Gmail user creates

ASSUME SentinelAssumption ==
  /\ NoDraft \notin Drafts
  /\ NoCommand \notin Commands
  /\ NoWorker \notin Workers

ASSUME BoundAssumption ==
  /\ MaxAttempts \in Nat
  /\ AttemptBound \in Nat
  /\ VersionBound \in Nat

VARIABLES
  draft,    \* rows of drafts; provider is gmail_draft_message_id (0: NULL)
  cmd,      \* rows of provider_commands
  work,     \* what each worker slot is doing: control point, command, observation
  gmail,    \* per draft: live Draft resources, newest version, Sent messages
  request,  \* the Gmail mutation call of each command and its response
  calls,    \* history: mutation calls issued for each command
  applied   \* history: commands whose call took effect in Gmail

vars == <<draft, cmd, work, gmail, request, calls, applied>>

Types == {"create", "update", "send"}
Active == {"pending", "running", "retryable", "recovery_required"}
InProgress == {"creating", "updating", "sending"}

\* The draft status a command of each type works in.
StatusFor(type) ==
  CASE type = "create" -> "creating"
    [] type = "update" -> "updating"
    [] type = "send"   -> "sending"

Idle == [pc |-> "idle", cmd |-> NoCommand, version |-> 0]
NoRow == [type |-> "none", draft |-> NoDraft, revision |-> 0, status |-> "none",
          attempts |-> 0, due |-> FALSE, owner |-> NoWorker, leased |-> FALSE,
          marked |-> FALSE]

PendingCommand(type, d, r) ==
  [type |-> type, draft |-> d, revision |-> r, status |-> "pending",
   attempts |-> 0, due |-> TRUE, owner |-> NoWorker, leased |-> FALSE,
   marked |-> FALSE]

Init ==
  /\ draft = [d \in Drafts |-> [status |-> "none", revision |-> 0, confirmed |-> 0,
                                last |-> NoCommand, provider |-> 0]]
  /\ cmd = [c \in Commands |-> NoRow]
  /\ work = [w \in Workers |-> Idle]
  /\ gmail = [d \in Drafts |-> [copies |-> 0, version |-> 0, sent |-> 0]]
  /\ request = [c \in Commands |-> [state |-> "none", version |-> 0]]
  /\ calls = [c \in Commands |-> 0]
  /\ applied = {}

------------------------------------------------------------------------------
(* API transactions.  A repeated request with the same key finds the command  *)
(* and changes nothing.                                                       *)

HasActiveCommand(d) == \E c \in Commands : cmd[c].draft = d /\ cmd[c].status \in Active

NewKey(c) == cmd[c].status = "none"

CreateDraft(d, c) ==
  /\ NewKey(c)
  /\ draft[d].status = "none"
  /\ draft' = [draft EXCEPT ![d] = [status |-> "creating", revision |-> 1, confirmed |-> 0,
                                    last |-> c, provider |-> 0]]
  /\ cmd' = [cmd EXCEPT ![c] = PendingCommand("create", d, 1)]
  /\ UNCHANGED <<work, gmail, request, calls, applied>>

UpdateDraft(d, c) ==
  /\ NewKey(c)
  /\ draft[d].status = "ready"
  /\ ~HasActiveCommand(d)
  /\ draft' = [draft EXCEPT ![d].status = "updating", ![d].revision = @ + 1, ![d].last = c]
  /\ cmd' = [cmd EXCEPT ![c] = PendingCommand("update", d, draft[d].revision + 1)]
  /\ UNCHANGED <<work, gmail, request, calls, applied>>

\* Mutant: a draft in conflict may be sent again.
SendDraftAfterConflict(d, c) ==
  /\ NewKey(c)
  /\ draft[d].status \in {"ready", "conflict"}
  /\ draft[d].confirmed = draft[d].revision
  /\ draft[d].provider # 0
  /\ ~HasActiveCommand(d)
  /\ draft' = [draft EXCEPT ![d].status = "sending", ![d].last = c]
  /\ cmd' = [cmd EXCEPT ![c] = PendingCommand("send", d, draft[d].revision)]
  /\ UNCHANGED <<work, gmail, request, calls, applied>>

SendDraft(d, c) ==
  /\ NewKey(c)
  /\ draft[d].status = "ready"
  /\ draft[d].confirmed = draft[d].revision
  /\ draft[d].provider # 0
  /\ ~HasActiveCommand(d)
  /\ draft' = [draft EXCEPT ![d].status = "sending", ![d].last = c]
  /\ cmd' = [cmd EXCEPT ![c] = PendingCommand("send", d, draft[d].revision)]
  /\ UNCHANGED <<work, gmail, request, calls, applied>>

------------------------------------------------------------------------------
(* The claim protocol.                                                        *)

\* Mutant: neither the claim nor its lease is checked.
HoldsNoClaim(w, c, status) == cmd[c].status = status

HoldsClaim(w, c, status) ==
  cmd[c].status = status /\ cmd[c].owner = w /\ cmd[c].leased

Executing(w) == HoldsClaim(w, work[w].cmd, "running")

Settle(c, status) ==
  cmd' = [cmd EXCEPT ![c] = [@ EXCEPT !.status = status, !.owner = NoWorker, !.leased = FALSE]]

SetWork(w, pc, version) ==
  work' = [work EXCEPT ![w].pc = pc, ![w].version = version]

Finish(w) == work' = [work EXCEPT ![w] = Idle]

ClaimCommand(w, c) ==
  /\ work[w].pc = "idle"
  /\ cmd[c].status \in {"pending", "retryable"}
  /\ cmd[c].due
  /\ cmd[c].attempts < AttemptBound
  /\ cmd' = [cmd EXCEPT ![c].status = "running", ![c].owner = w, ![c].leased = TRUE,
                        ![c].attempts = @ + 1]
  /\ work' = [work EXCEPT ![w] = [pc |-> "claimed", cmd |-> c, version |-> 0]]
  /\ UNCHANGED <<draft, gmail, request, calls, applied>>

\* loadDraftForCreation, loadDraftForUpdate and loadDraftForSend.
DraftLoadable(c) ==
  LET d == draft[cmd[c].draft] IN
  /\ d.last = c
  /\ d.status = StatusFor(cmd[c].type)
  /\ cmd[c].type \in {"update", "send"} => d.revision = cmd[c].revision /\ d.provider # 0
  /\ cmd[c].type = "send" => d.confirmed = cmd[c].revision

\* A create goes straight to the execution marker; update and send first read
\* the Gmail draft.
LoadDraft(w) ==
  /\ work[w].pc = "claimed"
  /\ Executing(w)
  /\ DraftLoadable(work[w].cmd)
  /\ SetWork(w, IF cmd[work[w].cmd].type = "create" THEN "checked" ELSE "loaded",
             draft[cmd[work[w].cmd].draft].provider)
  /\ UNCHANGED <<draft, cmd, gmail, request, calls, applied>>

PreflightGetDraft(w) ==
  LET d == cmd[work[w].cmd].draft
      unchanged == gmail[d].copies > 0 /\ gmail[d].version = work[w].version
  IN
  /\ work[w].pc = "loaded"
  /\ SetWork(w, IF unchanged THEN "checked" ELSE "conflicted", 0)
  /\ UNCHANGED <<draft, cmd, gmail, request, calls, applied>>

\* completeFailedMutation with markDraftConflict or markDraftSendConflict.
CompleteConflict(w) ==
  LET c == work[w].cmd
      d == cmd[c].draft
  IN
  /\ work[w].pc = "conflicted"
  /\ Executing(w)
  /\ draft[d].last = c
  /\ draft[d].status = StatusFor(cmd[c].type)
  /\ Settle(c, "failed")
  /\ draft' = [draft EXCEPT ![d].status = "conflict"]
  /\ Finish(w)
  /\ UNCHANGED <<gmail, request, calls, applied>>

\* The marker commits; the worker may lose the acknowledgement of the commit
\* ("unseen") and then believes that execution has not started.
MarkProviderExecutionStarted(w) ==
  /\ work[w].pc = "checked"
  /\ Executing(w)
  /\ cmd' = [cmd EXCEPT ![work[w].cmd].marked = TRUE]
  /\ \E pc \in {"marked", "unseen"} : SetWork(w, pc, 0)
  /\ UNCHANGED <<draft, gmail, request, calls, applied>>

CallProvider(w) ==
  /\ work[w].pc = "marked"
  /\ request' = [request EXCEPT ![work[w].cmd] = [state |-> "inflight", version |-> 0]]
  /\ calls' = [calls EXCEPT ![work[w].cmd] = @ + 1]
  /\ SetWork(w, "calling", 0)
  /\ UNCHANGED <<draft, cmd, gmail, applied>>

\* completeConfirmedMutation with confirmDraftCreation, confirmDraftUpdate or
\* confirmDraftSent, also used by the verified recoveries below.
ConfirmableDraft(c) ==
  LET d == draft[cmd[c].draft] IN
  /\ d.last = c
  /\ cmd[c].type = "create" => d.status = "creating"
  /\ cmd[c].type = "update" => d.status = "updating" /\ d.revision = cmd[c].revision
  /\ cmd[c].type = "send"   => /\ d.status \in {"sending", "recovery_required"}
                               /\ d.revision = cmd[c].revision
                               /\ d.confirmed = cmd[c].revision

ConfirmedDraft(c, version) ==
  LET d == draft[cmd[c].draft] IN
  IF cmd[c].type = "send"
  THEN [d EXCEPT !.status = "sent", !.provider = 0]
  ELSE [d EXCEPT !.status = "ready", !.confirmed = d.revision, !.provider = version]

Succeed(c, version) ==
  /\ Settle(c, "succeeded")
  /\ draft' = [draft EXCEPT ![cmd[c].draft] = ConfirmedDraft(c, version)]

CompleteConfirmed(w) ==
  LET c == work[w].cmd IN
  /\ work[w].pc = "calling"
  /\ request[c].state = "ok"
  /\ Executing(w)
  /\ ConfirmableDraft(c)
  /\ Succeed(c, request[c].version)
  /\ Finish(w)
  /\ UNCHANGED <<gmail, request, calls, applied>>

------------------------------------------------------------------------------
(* The executor's catch block.  Each of its branches ends in one transaction   *)
(* conditional on the claim; without the claim nothing is written and the job  *)
(* ends ("stale").                                                             *)

\* Mutant: uncertainty after the marker is reported as a failure.
FailUncertain(c) == Settle(c, "failed") /\ UNCHANGED draft

\* Mutant: the draft is handed back to the user at once.
RequireRecoveryButReady(c) ==
  /\ Settle(c, "recovery_required")
  /\ draft' = [draft EXCEPT ![cmd[c].draft].status = "ready"]

\* completeRecoveryRequiredMutation with markDraftSendRecoveryRequired for a
\* send; a bare completeClaim for a create or an update.
RequireRecovery(c) ==
  LET d == cmd[c].draft
      send == cmd[c].type = "send"
  IN
  /\ send => draft[d].last = c /\ draft[d].status = "sending"
  /\ Settle(c, "recovery_required")
  /\ draft' = IF send THEN [draft EXCEPT ![d].status = "recovery_required"] ELSE draft

ScheduleRetry(c) ==
  /\ IF cmd[c].attempts >= MaxAttempts
     THEN Settle(c, "failed")
     ELSE cmd' = [cmd EXCEPT ![c].status = "retryable", ![c].owner = NoWorker,
                             ![c].leased = FALSE, ![c].due = FALSE]
  /\ UNCHANGED draft

\* classifyGmailMutationError: "transient" is rate_limited or
\* transient_provider_failure, "definitive" any refusal by Gmail, a missing
\* mailbox or an invalid payload, "uncertain" a request without a response,
\* "unknown" everything else, database errors included.
ErrorClasses == {"transient", "definitive", "uncertain", "unknown"}

\* What can throw at each control point before the worker knows of the marker:
\* Gmail is read only by the preflight of an update or a send.
ErrorsAt(pc) ==
  CASE pc = "claimed" -> {"definitive", "unknown"}
    [] pc = "loaded"  -> ErrorClasses
    [] pc \in {"conflicted", "checked", "unseen"} -> {"unknown"}

CatchBeforeMarker(w) ==
  LET c == work[w].cmd IN
  /\ work[w].pc \in {"claimed", "loaded", "conflicted", "checked", "unseen"}
  /\ Executing(w)
  /\ \E error \in ErrorsAt(work[w].pc) :
       CASE error = "transient"  -> ScheduleRetry(c)
         [] error = "definitive" -> Settle(c, "failed") /\ UNCHANGED draft
         [] error \in {"uncertain", "unknown"} ->
              IF cmd[c].type = "send" /\ work[w].pc # "claimed"
              THEN RequireRecovery(c)
              ELSE /\ Settle(c, IF error = "uncertain" THEN "recovery_required" ELSE "failed")
                   /\ UNCHANGED draft
  /\ Finish(w)
  /\ UNCHANGED <<gmail, request, calls, applied>>

\* Any failure of the call (also a timeout while the request is still on its
\* way) or of the confirming transaction.
CatchAfterMarker(w) ==
  /\ work[w].pc = "calling"
  /\ Executing(w)
  /\ RequireRecovery(work[w].cmd)
  /\ Finish(w)
  /\ UNCHANGED <<gmail, request, calls, applied>>

\* The claim is lost: every transaction of the job finds no row and the job ends.
\* A crash, or a throw out of the catch block, ends it at any point.
Abandon(w) ==
  /\ work[w].pc # "idle"
  /\ Finish(w)
  /\ UNCHANGED <<draft, cmd, gmail, request, calls, applied>>

------------------------------------------------------------------------------
(* Read-only verification of an uncertain command: the jobs verify-create-draft, *)
(* verify-update-draft and verify-send-draft.                                    *)

ClaimRecovery(w, c) ==
  /\ work[w].pc = "idle"
  /\ cmd[c].status = "recovery_required"
  /\ cmd[c].owner = NoWorker \/ ~cmd[c].leased
  /\ cmd' = [cmd EXCEPT ![c].owner = w, ![c].leased = TRUE]
  /\ work' = [work EXCEPT ![w] = [pc |-> "verifying", cmd |-> c, version |-> 0]]
  /\ UNCHANGED <<draft, gmail, request, calls, applied>>

\* loadDraftForRecovery and loadDraftForSendRecovery; an update is never conclusive.
Verifiable(c) ==
  LET d == draft[cmd[c].draft] IN
  /\ cmd[c].status = "recovery_required"
  /\ d.last = c
  /\ \/ cmd[c].type = "create" /\ d.status = "creating"
     \/ cmd[c].type = "send" /\ d.status = "recovery_required"

\* Mutant: an empty search result counts as a match.
FoundAtMostOne(c) ==
  LET g == gmail[cmd[c].draft] IN
  IF cmd[c].type = "create" THEN g.copies <= 1 ELSE g.sent <= 1

\* Exactly one resource carries the draft's Message-ID.
FoundOne(c) ==
  LET g == gmail[cmd[c].draft] IN
  IF cmd[c].type = "create" THEN g.copies = 1 ELSE g.sent = 1

SearchByMessageId(w) ==
  LET c == work[w].cmd IN
  /\ work[w].pc = "verifying"
  /\ Verifiable(c)
  /\ FoundOne(c)
  /\ SetWork(w, "found", gmail[cmd[c].draft].version)
  /\ UNCHANGED <<draft, cmd, gmail, request, calls, applied>>

CompleteRecovered(w) ==
  LET c == work[w].cmd IN
  /\ work[w].pc = "found"
  /\ HoldsClaim(w, c, "recovery_required")
  /\ ConfirmableDraft(c)
  /\ Succeed(c, work[w].version)
  /\ Finish(w)
  /\ UNCHANGED <<gmail, request, calls, applied>>

\* No match, several matches, an inactive mailbox, an update or any error.  The
\* release checks the claim but not its lease.
ReleaseRecoveryClaim(w) ==
  LET c == work[w].cmd IN
  /\ work[w].pc \in {"verifying", "found"}
  /\ cmd' = IF cmd[c].status = "recovery_required" /\ cmd[c].owner = w
            THEN [cmd EXCEPT ![c].owner = NoWorker, ![c].leased = FALSE]
            ELSE cmd
  /\ Finish(w)
  /\ UNCHANGED <<draft, gmail, request, calls, applied>>

------------------------------------------------------------------------------
(* Maintenance jobs and the passing of time.                                   *)

LeaseExpires(c) ==
  /\ cmd[c].leased
  /\ cmd' = [cmd EXCEPT ![c].leased = FALSE]
  /\ UNCHANGED <<draft, work, gmail, request, calls, applied>>

BackoffElapses(c) ==
  /\ cmd[c].status = "retryable"
  /\ ~cmd[c].due
  /\ cmd' = [cmd EXCEPT ![c].due = TRUE]
  /\ UNCHANGED <<draft, work, gmail, request, calls, applied>>

\* Mutants: live leases are recovered too; marked commands are left alone.
RunningCommands == {c \in Commands : cmd[c].status = "running"}
ExpiredUnmarked == {c \in Commands : cmd[c].status = "running" /\ ~cmd[c].leased /\ ~cmd[c].marked}

ExpiredCommands == {c \in Commands : cmd[c].status = "running" /\ ~cmd[c].leased}

\* Mutants: the marker is ignored; the failure code is written as the status.
RecoveredForRetry(c) == "retryable"
RecoveredAsCode(c) == IF cmd[c].marked THEN "provider_execution_uncertain" ELSE "retryable"

RecoveredStatus(c) == IF cmd[c].marked THEN "recovery_required" ELSE "retryable"

UncertainSend(c) == cmd[c].type = "send" /\ cmd[c].marked

\* One statement settles every expired command and the drafts of uncertain sends.
RecoverExpiredLeases ==
  /\ ExpiredCommands # {}
  /\ cmd' = [c \in Commands |->
               IF c \in ExpiredCommands
               THEN [cmd[c] EXCEPT !.status = RecoveredStatus(c), !.owner = NoWorker,
                                   !.due = FALSE]
               ELSE cmd[c]]
  /\ draft' = [d \in Drafts |->
                 IF /\ draft[d].status = "sending"
                    /\ \E c \in ExpiredCommands :
                         UncertainSend(c) /\ cmd[c].draft = d /\ draft[d].last = c
                 THEN [draft[d] EXCEPT !.status = "recovery_required"]
                 ELSE draft[d]]
  /\ UNCHANGED <<work, gmail, request, calls, applied>>

\* Mutants: an uncertain command does not count as active; a failed one does.
InconsistentUnlessRunning(d) ==
  /\ draft[d].status \in InProgress
  /\ ~ \E c \in Commands : /\ c = draft[d].last
                           /\ StatusFor(cmd[c].type) = draft[d].status
                           /\ cmd[c].status \in Active \ {"recovery_required"}

InconsistentUnlessFailed(d) ==
  /\ draft[d].status \in InProgress
  /\ ~ \E c \in Commands : /\ c = draft[d].last
                           /\ StatusFor(cmd[c].type) = draft[d].status
                           /\ cmd[c].status \in Active \cup {"failed"}

Inconsistent(d) ==
  /\ draft[d].status \in InProgress
  /\ ~ \E c \in Commands : /\ c = draft[d].last
                           /\ StatusFor(cmd[c].type) = draft[d].status
                           /\ cmd[c].status \in Active

\* Locked rows are skipped and the batch is limited: any of the candidates.
RepairInconsistentDraftStates ==
  /\ \E S \in (SUBSET {d \in Drafts : Inconsistent(d)}) \ {{}} :
       draft' = [d \in Drafts |->
                   IF d \in S THEN [draft[d] EXCEPT !.status = "recovery_required"]
                              ELSE draft[d]]
  /\ UNCHANGED <<cmd, work, gmail, request, calls, applied>>

------------------------------------------------------------------------------
(* Gmail and its user (external).                                              *)

CanApply(c) == cmd[c].type = "create" \/ gmail[cmd[c].draft].copies > 0

ApplyMutation(c) ==
  LET g == gmail[cmd[c].draft] IN
  CASE cmd[c].type = "create" -> [g EXCEPT !.copies = @ + 1, !.version = @ + 1]
    [] cmd[c].type = "update" -> [g EXCEPT !.version = @ + 1]
    [] cmd[c].type = "send"   -> [g EXCEPT !.copies = @ - 1, !.sent = @ + 1]

\* Gmail takes the request and answers "ok" or fails (the effect may have happened
\* all the same), whether or not the worker still waits for the answer.
GmailAccepts(c) ==
  LET d == cmd[c].draft IN
  /\ request[c].state = "inflight"
  /\ CanApply(c)
  /\ gmail' = [gmail EXCEPT ![d] = ApplyMutation(c)]
  /\ \E answer \in {"ok", "error"} :
       request' = [request EXCEPT ![c] = [state |-> answer, version |-> gmail'[d].version]]
  /\ applied' = applied \cup {c}
  /\ UNCHANGED <<draft, cmd, work, calls>>

GmailRefuses(c) ==
  /\ request[c].state = "inflight"
  /\ request' = [request EXCEPT ![c].state = "error"]
  /\ UNCHANGED <<draft, cmd, work, gmail, calls, applied>>

GmailUserEdits(d) ==
  /\ gmail[d].copies > 0
  /\ gmail[d].version < VersionBound
  /\ gmail' = [gmail EXCEPT ![d].version = @ + 1]
  /\ UNCHANGED <<draft, cmd, work, request, calls, applied>>

GmailUserDeletes(d) ==
  /\ gmail[d].copies > 0
  /\ gmail' = [gmail EXCEPT ![d].copies = 0]
  /\ UNCHANGED <<draft, cmd, work, request, calls, applied>>

GmailUserSends(d) ==
  /\ gmail[d].copies > 0
  /\ gmail' = [gmail EXCEPT ![d].copies = @ - 1, ![d].sent = @ + 1]
  /\ UNCHANGED <<draft, cmd, work, request, calls, applied>>

------------------------------------------------------------------------------

UserRequests == \E d \in Drafts, c \in Commands :
  CreateDraft(d, c) \/ UpdateDraft(d, c) \/ SendDraft(d, c)

ExecutionStep(w) ==
  \/ LoadDraft(w) \/ PreflightGetDraft(w) \/ CompleteConflict(w)
  \/ MarkProviderExecutionStarted(w) \/ CallProvider(w) \/ CompleteConfirmed(w)
  \/ CatchBeforeMarker(w) \/ CatchAfterMarker(w)

VerificationStep(w) ==
  SearchByMessageId(w) \/ CompleteRecovered(w) \/ ReleaseRecoveryClaim(w)

WorkerStep == \E w \in Workers :
  \/ \E c \in Commands : ClaimCommand(w, c) \/ ClaimRecovery(w, c)
  \/ ExecutionStep(w)
  \/ VerificationStep(w)
  \/ Abandon(w)

Passage == \E c \in Commands : LeaseExpires(c) \/ BackoffElapses(c)

Maintenance == RecoverExpiredLeases \/ RepairInconsistentDraftStates

Gmail ==
  \/ \E c \in Commands : GmailAccepts(c) \/ GmailRefuses(c)
  \/ \E d \in Drafts : GmailUserEdits(d) \/ GmailUserDeletes(d) \/ GmailUserSends(d)

Next == UserRequests \/ WorkerStep \/ Passage \/ Maintenance \/ Gmail

Spec == Init /\ [][Next]_vars

\* Leases run out, and the scheduler runs both maintenance jobs again and again.
Fairness ==
  /\ \A c \in Commands : WF_vars(LeaseExpires(c))
  /\ WF_vars(RecoverExpiredLeases)
  /\ WF_vars(RepairInconsistentDraftStates)

FairSpec == Spec /\ Fairness

------------------------------------------------------------------------------
(* Properties.                                                                *)

CommandRow ==
  [type : Types \cup {"none"}, draft : Drafts \cup {NoDraft}, revision : Nat,
   status : Active \cup {"none", "succeeded", "failed"}, attempts : 0..AttemptBound,
   due : BOOLEAN, owner : Workers \cup {NoWorker}, leased : BOOLEAN, marked : BOOLEAN]

DraftRow ==
  [status : InProgress \cup {"none", "ready", "sent", "conflict", "recovery_required"},
   revision : Nat, confirmed : Nat, last : Commands \cup {NoCommand}, provider : Nat]

PreMarker == {"claimed", "loaded", "conflicted", "checked"}
PostMarker == {"marked", "unseen", "calling"}

Job == [pc : PreMarker \cup PostMarker \cup {"idle", "verifying", "found"},
        cmd : Commands \cup {NoCommand}, version : Nat]

\* Every variable stays in its type: rows keep the statuses the migrations
\* allow, and counters stay natural numbers.
TypeOK ==
  /\ draft \in [Drafts -> DraftRow]
  /\ cmd \in [Commands -> CommandRow]
  /\ work \in [Workers -> Job]
  /\ gmail \in [Drafts -> [copies : Nat, version : Nat, sent : Nat]]
  /\ request \in [Commands -> [state : {"none", "inflight", "ok", "error"}, version : Nat]]
  /\ calls \in [Commands -> Nat]
  /\ applied \in SUBSET Commands

\* No command issues its Gmail mutation twice, whatever crashes, lease expiries,
\* recoveries and redeliveries separate its attempts.
AtMostOneCall == \A c \in Commands : calls[c] <= 1

\* A command that waits for (another) execution, or that is reported as failed,
\* has never called Gmail and has no slot about to call it for it: failure is
\* never an uncertain outcome and a retry never repeats a mutation.
OnlyUncalledRetriedOrFailed ==
  \A c \in Commands : cmd[c].status \in {"pending", "retryable", "failed"} =>
    /\ calls[c] = 0
    /\ \A w \in Workers : work[w].cmd = c => work[w].pc # "marked"

\* Of all the commands a draft ever has, one creates it, one sends it, and each
\* revision has one update: two keys never stand for the same mutation.
NoDuplicateMutation ==
  \A b, c \in Commands :
    /\ cmd[b].status # "none" /\ cmd[c].status # "none"
    /\ cmd[b].draft = cmd[c].draft /\ cmd[b].type = cmd[c].type
    /\ cmd[b].type = "update" => cmd[b].revision = cmd[c].revision
    => b = c

\* An unsettled command is the last one of its draft and the draft shows it: in
\* progress for the type, or recovery_required for an uncertain send.  So at most
\* one command of a draft is active, and each uncertain create or send is found
\* by the verification that could still resolve it.
ActiveCommandOwnsDraft ==
  \A c \in Commands : cmd[c].status \in Active =>
    LET d == draft[cmd[c].draft] IN
    /\ d.last = c
    /\ d.status = IF cmd[c].type = "send" /\ cmd[c].status = "recovery_required"
                  THEN "recovery_required"
                  ELSE StatusFor(cmd[c].type)

\* A draft offered for editing or sending is one Gmail confirmed: no command is
\* active, and no mutation request of an earlier command is still on its way to
\* overtake the next one.
ReadyIsQuiescent ==
  \A d \in Drafts : draft[d].status = "ready" =>
    /\ draft[d].confirmed = draft[d].revision
    /\ draft[d].provider # 0
    /\ \A c \in Commands : cmd[c].draft = d =>
         cmd[c].status \notin Active /\ request[c].state # "inflight"

\* The recipients never get a second copy: the draft exists once, either as a
\* Draft resource or as a Sent message, also when the user sends it from Gmail.
SingleDelivery == \A d \in Drafts : gmail[d].copies + gmail[d].sent <= 1

\* The projection never claims more than Gmail did: a sent draft is in Sent, and
\* a create or update reported as succeeded took effect.
ConfirmedByGmail ==
  /\ \A d \in Drafts : draft[d].status = "sent" => gmail[d].sent > 0
  /\ \A c \in Commands : cmd[c].status = "succeeded" =>
       IF cmd[c].type = "send" THEN gmail[cmd[c].draft].sent > 0 ELSE c \in applied

\* While the lease of a running command is live, only the slot that claimed it
\* settles it; other slots, stale attempts and maintenance leave it alone.
ClaimFencing ==
  [][\A c \in Commands :
       cmd[c].status = "running" /\ cmd[c].leased /\ cmd'[c].status # "running"
       => \E w \in Workers : /\ cmd[c].owner = w
                             /\ work[w].cmd = c
                             /\ work'[w].pc = "idle"]_vars

\* A verification that found its match confirms the last command of a draft.
VerifiedMatch(d) ==
  \E w \in Workers : /\ work[w].pc = "found"
                     /\ work[w].cmd = draft[d].last
                     /\ cmd[draft[d].last].status = "recovery_required"
                     /\ cmd'[draft[d].last].status = "succeeded"

\* Settled rows stay settled: succeeded and failed commands, sent and conflicting
\* drafts never change, and a draft leaves recovery_required only by the one
\* verified match of draft-lifecycle.md:37, never by itself or by a late answer.
SettledIsFinal ==
  [][/\ \A c \in Commands : cmd[c].status \in {"succeeded", "failed"} => cmd'[c] = cmd[c]
     /\ \A d \in Drafts :
          /\ draft[d].status \in {"sent", "conflict"} => draft'[d] = draft[d]
          /\ draft[d].status = "recovery_required" =>
               draft'[d] = draft[d] \/ VerifiedMatch(d)]_vars

\* No command stays running for ever: its worker settles it or its lease runs
\* out and the maintenance job recovers it.
RunningSettles ==
  \A c \in Commands : cmd[c].status = "running" ~> cmd[c].status # "running"

\* A draft whose command failed before reaching Gmail does not stay in progress:
\* the repair scan surfaces it.
OrphanSurfaces ==
  \A d \in Drafts :
    (draft[d].status \in InProgress /\ cmd[draft[d].last].status = "failed")
      ~> draft[d].status = "recovery_required"

(* What the documentation and a comment say and the code does not do.          *)

\* provider-command-executor.ts: the preflight "prevents us from overwriting a
\* Gmail-native external change": an update replaces the version it was based on.
NoOverwrittenEdit ==
  [][\A c \in applied' \ applied :
       cmd[c].type = "update" => gmail[cmd[c].draft].version = draft[cmd[c].draft].provider]_vars

\* draft-lifecycle.md: post-marker uncertainty moves a draft that is being
\* created or updated to recovery_required.
UncertaintyShownOnDraft ==
  \A c \in Commands : cmd[c].status = "recovery_required" /\ cmd[c].marked =>
    draft[cmd[c].draft].status = "recovery_required"
==============================================================================

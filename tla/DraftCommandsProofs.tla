------------------------- MODULE DraftCommandsProofs -------------------------
(***************************************************************************)
(* Safety of DraftCommands, and of CommandPipeline around it, for any number  *)
(* of drafts, commands, worker slots and dispatchers and any bounds: the type *)
(* invariant, at most one Gmail call per command, no call behind a failed or  *)
(* retryable command, who may act on a draft, and no published event without  *)
(* its job.  Then what the mutations of a draft come to: claims fence, settled *)
(* rows are final, the recipient gets one copy, every confirmation is backed   *)
(* by Gmail, a ready draft has nothing in flight, and the whole protocol        *)
(* implements MutationPromise.                                               *)
(***************************************************************************)
EXTENDS CommandPipeline, DraftPromise, TLAPS

\* Rows refer to each other: an existing command has a type and a draft, a busy
\* slot works on an existing command, only existing commands have requests.
RowsOK ==
  /\ \A c \in Commands : cmd[c].status # "none" => cmd[c].type \in Types /\ cmd[c].draft \in Drafts
  /\ \A w \in Workers : work[w].pc # "idle" =>
       work[w].cmd \in Commands /\ cmd[work[w].cmd].status # "none"
  /\ \A c \in Commands : request[c].state # "none" => cmd[c].status # "none"

RowInv == TypeOK /\ RowsOK

\* The empty tables satisfy the row invariant.
LEMMA RowInvInit == Init => RowInv
BY SentinelAssumption, BoundAssumption
   DEF Init, RowInv, TypeOK, RowsOK, Idle, NoRow, DraftRow, CommandRow, Job, Types, Active,
       InProgress, PreMarker, PostMarker

------------------------------------------------------------------------------
(* What the row operators write.                                              *)

\* A new command is a typed, pending, unmarked row.
LEMMA PendingCommandRow ==
  ASSUME NEW type \in Types, NEW d \in Drafts, NEW r \in Nat
  PROVE  /\ PendingCommand(type, d, r) \in CommandRow
         /\ PendingCommand(type, d, r).status = "pending"
         /\ PendingCommand(type, d, r).type = type
         /\ PendingCommand(type, d, r).draft = d
         /\ PendingCommand(type, d, r).marked = FALSE
BY BoundAssumption DEF PendingCommand, CommandRow, Types, Active

\* Scheduling a retry rewrites the status, the claim and the due flag of a row.
LEMMA RetryableRow ==
  ASSUME NEW row \in CommandRow
  PROVE  LET new == [row EXCEPT !.status = "retryable", !.owner = NoWorker, !.leased = FALSE,
                                !.due = FALSE]
         IN /\ new \in CommandRow
            /\ new.status = "retryable"
            /\ new.type = row.type
            /\ new.draft = row.draft
            /\ new.revision = row.revision
            /\ new.marked = row.marked
BY DEF CommandRow, Active

\* A draft row stays a row when its status changes.
LEMMA DraftStatusRow ==
  ASSUME NEW row \in DraftRow,
         NEW status \in InProgress \cup {"ready", "sent", "conflict", "recovery_required"}
  PROVE  [row EXCEPT !.status = status] \in DraftRow
BY DEF DraftRow

\* The other single-field changes of command rows.
LEMMA TouchedRow ==
  ASSUME NEW row \in CommandRow
  PROVE  /\ [row EXCEPT !.leased = FALSE] \in CommandRow
         /\ [row EXCEPT !.due = TRUE] \in CommandRow
         /\ [row EXCEPT !.marked = TRUE] \in CommandRow
         /\ \A w \in Workers : [row EXCEPT !.owner = w, !.leased = TRUE] \in CommandRow
         /\ [row EXCEPT !.owner = NoWorker, !.leased = FALSE] \in CommandRow
BY DEF CommandRow

\* Moving a slot keeps the command it works on.
LEMMA SetWorkMoves ==
  ASSUME TypeOK, NEW w \in Workers, NEW version \in Nat,
         NEW pc \in {"loaded", "conflicted", "checked", "marked", "unseen", "calling", "found"},
         SetWork(w, pc, version)
  PROVE  /\ work' \in [Workers -> Job]
         /\ work'[w].pc = pc
         /\ work'[w].cmd = work[w].cmd
         /\ \A v \in Workers \ {w} : work'[v] = work[v]
<1> DEFINE moved == [work[w] EXCEPT !.pc = pc, !.version = version]
<1>1. work' = [work EXCEPT ![w] = moved]
  BY DEF SetWork, TypeOK
<1>2. work[w] \in Job
  BY DEF TypeOK
<1>3. moved \in Job /\ moved.pc = pc /\ moved.cmd = work[w].cmd
  BY <1>2 DEF Job, PreMarker, PostMarker
<1> QED BY <1>1, <1>3 DEF TypeOK

\* The effect of a transaction that ends the execution of c with this status.
Ends(c, status) ==
  /\ cmd' \in [Commands -> CommandRow]
  /\ \A x \in Commands \ {c} : cmd'[x] = cmd[x]
  /\ cmd'[c].status = status
  /\ cmd'[c].type = cmd[c].type
  /\ cmd'[c].draft = cmd[c].draft
  /\ cmd'[c].revision = cmd[c].revision
  /\ cmd'[c].marked = cmd[c].marked

\* Settle ends a command.
LEMMA SettleEnds ==
  ASSUME TypeOK, NEW c \in Commands,
         NEW status \in {"succeeded", "failed", "recovery_required"}, Settle(c, status)
  PROVE  Ends(c, status)
<1> DEFINE row == [cmd[c] EXCEPT !.status = status, !.owner = NoWorker, !.leased = FALSE]
<1>1. cmd' = [cmd EXCEPT ![c] = row]
  BY DEF Settle
<1>2. cmd[c] \in CommandRow
  BY DEF TypeOK
<1>3. row \in CommandRow /\ row.status = status /\ row.type = cmd[c].type
      /\ row.draft = cmd[c].draft /\ row.revision = cmd[c].revision
      /\ row.marked = cmd[c].marked
  BY <1>2 DEF CommandRow, Active
<1>4. cmd' \in [Commands -> CommandRow] /\ cmd'[c] = row
  BY <1>1, <1>3 DEF TypeOK
<1>5. \A x \in Commands \ {c} : cmd'[x] = cmd[x]
  BY <1>1 DEF TypeOK
<1> QED BY <1>3, <1>4, <1>5 DEF Ends

\* A retry ends a command as retryable, or as failed after the last attempt.
LEMMA ScheduleRetryEnds ==
  ASSUME TypeOK, NEW c \in Commands, ScheduleRetry(c)
  PROVE  draft' = draft /\ (Ends(c, "failed") \/ Ends(c, "retryable"))
<1>1. CASE cmd[c].attempts >= MaxAttempts
  BY <1>1, SettleEnds DEF ScheduleRetry
<1>2. CASE ~(cmd[c].attempts >= MaxAttempts)
  <2> DEFINE row == [cmd[c] EXCEPT !.status = "retryable", !.owner = NoWorker,
                                   !.leased = FALSE, !.due = FALSE]
  <2>1. cmd' = [cmd EXCEPT ![c] = row]
    BY <1>2 DEF ScheduleRetry, TypeOK
  <2>2. cmd[c] \in CommandRow
    BY DEF TypeOK
  <2>3. row \in CommandRow /\ row.status = "retryable" /\ row.type = cmd[c].type
        /\ row.draft = cmd[c].draft /\ row.revision = cmd[c].revision
        /\ row.marked = cmd[c].marked
    BY <2>2, RetryableRow
  <2>4. cmd' \in [Commands -> CommandRow] /\ cmd'[c] = row
    BY <2>1, <2>3 DEF TypeOK
  <2>5. \A x \in Commands \ {c} : cmd'[x] = cmd[x]
    BY <2>1 DEF TypeOK
  <2>6. Ends(c, "retryable")
    BY <2>3, <2>4, <2>5 DEF Ends
  <2> QED BY <1>2, <2>6 DEF ScheduleRetry
<1> QED BY <1>1, <1>2

\* Requiring recovery ends the command, and keeps the draft rows typed.
LEMMA RequireRecoveryEnds ==
  ASSUME TypeOK, NEW c \in Commands, cmd[c].draft \in Drafts, RequireRecovery(c)
  PROVE  draft' \in [Drafts -> DraftRow] /\ Ends(c, "recovery_required")
<1>1. Ends(c, "recovery_required")
  BY SettleEnds DEF RequireRecovery
<1>2. draft' \in [Drafts -> DraftRow]
  <2>1. draft \in [Drafts -> DraftRow] /\ draft[cmd[c].draft] \in DraftRow
    BY DEF TypeOK
  <2>2. [draft[cmd[c].draft] EXCEPT !.status = "recovery_required"] \in DraftRow
    BY <2>1, DraftStatusRow
  <2>3. draft' = draft \/ draft' = [draft EXCEPT ![cmd[c].draft].status = "recovery_required"]
    BY DEF RequireRecovery
  <2> QED BY <2>1, <2>2, <2>3
<1> QED BY <1>1, <1>2

\* A confirmation ends the command as succeeded, and keeps the draft rows typed.
LEMMA SucceedEnds ==
  ASSUME TypeOK, NEW c \in Commands, cmd[c].draft \in Drafts, NEW version \in Nat,
         Succeed(c, version)
  PROVE  draft' \in [Drafts -> DraftRow] /\ Ends(c, "succeeded")
<1>1. Ends(c, "succeeded")
  BY SettleEnds DEF Succeed
<1>2. ConfirmedDraft(c, version) \in DraftRow
  <2>1. draft[cmd[c].draft] \in DraftRow
    BY DEF TypeOK
  <2> DEFINE row == draft[cmd[c].draft]
  <2>2. [row EXCEPT !.status = "sent", !.provider = 0] \in DraftRow
    BY <2>1 DEF DraftRow
  <2>3. [row EXCEPT !.status = "ready", !.confirmed = row.revision, !.provider = version]
          \in DraftRow
    BY <2>1 DEF DraftRow
  <2> QED BY <2>2, <2>3 DEF ConfirmedDraft
<1>3. draft' \in [Drafts -> DraftRow]
  BY <1>2 DEF Succeed, TypeOK
<1> QED BY <1>1, <1>3

\* Before the marker the catch block ends the command, never as succeeded, and
\* retries it only when the preflight failed.
LEMMA CatchBeforeMarkerEnds ==
  ASSUME RowInv, NEW w \in Workers, CatchBeforeMarker(w)
  PROVE  /\ work[w].cmd \in Commands
         /\ draft' \in [Drafts -> DraftRow]
         /\ \E status \in {"failed", "retryable", "recovery_required"} :
              /\ Ends(work[w].cmd, status)
              /\ status = "retryable" => work[w].pc = "loaded"
<1> DEFINE c == work[w].cmd
<1>1. c \in Commands /\ cmd[c].draft \in Drafts
  BY DEF RowInv, RowsOK, CatchBeforeMarker
<1>2. TypeOK /\ draft \in [Drafts -> DraftRow]
  BY DEF RowInv, TypeOK
<1>3. \/ ScheduleRetry(c) /\ work[w].pc = "loaded"
      \/ RequireRecovery(c)
      \/ UNCHANGED draft /\ \E status \in {"failed", "recovery_required"} : Settle(c, status)
  BY DEF CatchBeforeMarker, ErrorsAt, ErrorClasses
<1>4. CASE ScheduleRetry(c) /\ work[w].pc = "loaded"
  BY <1>1, <1>2, <1>4, ScheduleRetryEnds
<1>5. CASE RequireRecovery(c)
  BY <1>1, <1>2, <1>5, RequireRecoveryEnds
<1>6. CASE UNCHANGED draft /\ \E status \in {"failed", "recovery_required"} : Settle(c, status)
  BY <1>1, <1>2, <1>6, SettleEnds
<1> QED BY <1>1, <1>3, <1>4, <1>5, <1>6

------------------------------------------------------------------------------
(* Type correctness.                                                          *)

\* Lease recovery rewrites the expired rows only, as their marker commands.
LEMMA RecoveredRow ==
  ASSUME TypeOK, RecoverExpiredLeases, NEW c \in Commands
  PROVE  /\ cmd'[c] \in CommandRow
         /\ cmd'[c].type = cmd[c].type
         /\ cmd'[c].draft = cmd[c].draft
         /\ cmd'[c].revision = cmd[c].revision
         /\ cmd'[c].marked = cmd[c].marked
         /\ \/ c \notin ExpiredCommands /\ cmd'[c] = cmd[c]
            \/ /\ c \in ExpiredCommands /\ cmd[c].status = "running"
               /\ cmd'[c].status = RecoveredStatus(c)
               /\ cmd'[c].status \in {"retryable", "recovery_required"}
<1> DEFINE row == [cmd[c] EXCEPT !.status = RecoveredStatus(c), !.owner = NoWorker, !.due = FALSE]
<1>1. cmd[c] \in CommandRow
  BY DEF TypeOK
<1>2. RecoveredStatus(c) \in {"retryable", "recovery_required"}
  BY DEF RecoveredStatus
<1>3. CASE c \in ExpiredCommands
  <2>1. cmd'[c] = row
    BY <1>3 DEF RecoverExpiredLeases
  <2>2. row \in CommandRow /\ row.status = RecoveredStatus(c) /\ row.type = cmd[c].type
        /\ row.draft = cmd[c].draft /\ row.revision = cmd[c].revision
        /\ row.marked = cmd[c].marked
    BY <1>1, <1>2 DEF CommandRow, Active
  <2> QED BY <1>2, <1>3, <2>1, <2>2 DEF ExpiredCommands
<1>4. CASE c \notin ExpiredCommands
  BY <1>1, <1>4 DEF RecoverExpiredLeases
<1> QED BY <1>3, <1>4

\* A step that only ends the execution of one command keeps the row invariant.
LEMMA EndsKeepsRowInv ==
  ASSUME RowInv, NEW w \in Workers, work[w].cmd \in Commands, Finish(w),
         cmd[work[w].cmd].status # "none",
         NEW status \in {"succeeded", "failed", "retryable", "recovery_required"},
         Ends(work[w].cmd, status),
         draft' \in [Drafts -> DraftRow],
         UNCHANGED <<gmail, request, calls, applied>>
  PROVE  RowInv'
<1>1. TypeOK'
  BY DEF RowInv, TypeOK, Ends, Finish, Idle, Job
<1>2. RowsOK'
  BY DEF RowInv, TypeOK, RowsOK, Ends, Finish, Idle
<1> QED BY <1>1, <1>2 DEF RowInv

\* The row invariant is inductive.
LEMMA RowInvNext == RowInv /\ [Next]_vars => RowInv'
<1> SUFFICES ASSUME RowInv, [Next]_vars PROVE RowInv'
  OBVIOUS
<1>0. CASE UNCHANGED vars
  BY <1>0 DEF vars, RowInv, TypeOK, RowsOK
<1>1. ASSUME NEW d \in Drafts, NEW c \in Commands, CreateDraft(d, c) PROVE RowInv'
  <2>1. draft' \in [Drafts -> DraftRow]
    BY <1>1 DEF RowInv, TypeOK, CreateDraft, DraftRow, InProgress
  <2>2. cmd' \in [Commands -> CommandRow]
    BY <1>1, PendingCommandRow DEF RowInv, TypeOK, CreateDraft, Types
  <2>3. RowsOK'
    BY <1>1 DEF RowInv, TypeOK, RowsOK, CreateDraft, PendingCommand, Types
  <2> QED BY <1>1, <2>1, <2>2, <2>3 DEF RowInv, TypeOK, CreateDraft
<1>2. ASSUME NEW d \in Drafts, NEW c \in Commands, UpdateDraft(d, c) PROVE RowInv'
  <2>1. draft' \in [Drafts -> DraftRow]
    BY <1>2 DEF RowInv, TypeOK, UpdateDraft, DraftRow, InProgress
  <2>2. cmd' \in [Commands -> CommandRow]
    <3>1. draft[d].revision + 1 \in Nat
      BY DEF RowInv, TypeOK, DraftRow
    <3> QED BY <1>2, <3>1, PendingCommandRow DEF RowInv, TypeOK, UpdateDraft, Types
  <2>3. RowsOK'
    BY <1>2 DEF RowInv, TypeOK, RowsOK, UpdateDraft, PendingCommand, Types
  <2> QED BY <1>2, <2>1, <2>2, <2>3 DEF RowInv, TypeOK, UpdateDraft
<1>3. ASSUME NEW d \in Drafts, NEW c \in Commands, SendDraft(d, c) PROVE RowInv'
  <2>1. draft' \in [Drafts -> DraftRow]
    <3>1. [draft[d] EXCEPT !.status = "sending", !.last = c] \in DraftRow
      BY DEF RowInv, TypeOK, DraftRow, InProgress
    <3> QED BY <1>3, <3>1 DEF RowInv, TypeOK, SendDraft
  <2>2. cmd' \in [Commands -> CommandRow]
    <3>1. draft[d].revision \in Nat
      BY DEF RowInv, TypeOK, DraftRow
    <3> QED BY <1>3, <3>1, PendingCommandRow DEF RowInv, TypeOK, SendDraft, Types
  <2>3. RowsOK'
    BY <1>3 DEF RowInv, TypeOK, RowsOK, SendDraft, PendingCommand, Types
  <2> QED BY <1>3, <2>1, <2>2, <2>3 DEF RowInv, TypeOK, SendDraft
<1>4. ASSUME NEW w \in Workers, NEW c \in Commands, ClaimCommand(w, c) PROVE RowInv'
  <2>1. cmd' \in [Commands -> CommandRow]
    BY <1>4, BoundAssumption DEF RowInv, TypeOK, ClaimCommand, CommandRow, Active
  <2>2. work' \in [Workers -> Job]
    BY <1>4 DEF RowInv, TypeOK, ClaimCommand, Job, PreMarker
  <2>3. RowsOK'
    BY <1>4 DEF RowInv, TypeOK, RowsOK, ClaimCommand
  <2> QED BY <1>4, <2>1, <2>2, <2>3 DEF RowInv, TypeOK, ClaimCommand
<1>5. ASSUME NEW w \in Workers, NEW c \in Commands, ClaimRecovery(w, c) PROVE RowInv'
  <2>1. cmd' \in [Commands -> CommandRow]
    <3>1. [cmd[c] EXCEPT !.owner = w, !.leased = TRUE] \in CommandRow
      BY TouchedRow DEF RowInv, TypeOK
    <3> QED BY <1>5, <3>1 DEF RowInv, TypeOK, ClaimRecovery
  <2>2. work' \in [Workers -> Job]
    BY <1>5 DEF RowInv, TypeOK, ClaimRecovery, Job
  <2>3. RowsOK'
    BY <1>5 DEF RowInv, TypeOK, RowsOK, ClaimRecovery
  <2> QED BY <1>5, <2>1, <2>2, <2>3 DEF RowInv, TypeOK, ClaimRecovery
<1>6. ASSUME NEW w \in Workers, LoadDraft(w) PROVE RowInv'
  <2>1. work[w].cmd \in Commands /\ cmd[work[w].cmd].draft \in Drafts
    BY <1>6 DEF RowInv, RowsOK, LoadDraft
  <2>2. draft[cmd[work[w].cmd].draft].provider \in Nat
    BY <2>1 DEF RowInv, TypeOK, DraftRow
  <2>3. work' \in [Workers -> Job]
    BY <1>6, <2>2, SetWorkMoves DEF RowInv, LoadDraft
  <2>4. RowsOK'
    BY <1>6, <2>2, SetWorkMoves DEF RowInv, RowsOK, LoadDraft
  <2> QED BY <1>6, <2>3, <2>4 DEF RowInv, TypeOK, LoadDraft
<1>7. ASSUME NEW w \in Workers, PreflightGetDraft(w) PROVE RowInv'
  <2>1. work' \in [Workers -> Job]
    BY <1>7, SetWorkMoves DEF RowInv, PreflightGetDraft
  <2>2. RowsOK'
    BY <1>7, SetWorkMoves DEF RowInv, RowsOK, PreflightGetDraft
  <2> QED BY <1>7, <2>1, <2>2 DEF RowInv, TypeOK, PreflightGetDraft
<1>8. ASSUME NEW w \in Workers, CompleteConflict(w) PROVE RowInv'
  <2>1. work[w].cmd \in Commands /\ cmd[work[w].cmd].status # "none"
    BY <1>8 DEF RowInv, RowsOK, CompleteConflict
  <2>2. Ends(work[w].cmd, "failed")
    BY <1>8, <2>1, SettleEnds DEF RowInv, CompleteConflict
  <2>3. draft' \in [Drafts -> DraftRow]
    <3>1. cmd[work[w].cmd].draft \in Drafts
      BY <2>1 DEF RowInv, RowsOK
    <3>2. [draft[cmd[work[w].cmd].draft] EXCEPT !.status = "conflict"] \in DraftRow
      BY <3>1, DraftStatusRow DEF RowInv, TypeOK
    <3> QED BY <1>8, <3>2 DEF RowInv, TypeOK, CompleteConflict
  <2> QED BY <1>8, <2>1, <2>2, <2>3, EndsKeepsRowInv DEF CompleteConflict
<1>9. ASSUME NEW w \in Workers, MarkProviderExecutionStarted(w) PROVE RowInv'
  <2>1. cmd' \in [Commands -> CommandRow]
    <3>1. work[w].cmd \in Commands
      BY <1>9 DEF RowInv, RowsOK, MarkProviderExecutionStarted
    <3>2. [cmd[work[w].cmd] EXCEPT !.marked = TRUE] \in CommandRow
      BY <3>1, TouchedRow DEF RowInv, TypeOK
    <3> QED BY <1>9, <3>2 DEF RowInv, TypeOK, MarkProviderExecutionStarted
  <2>2. work' \in [Workers -> Job]
    BY <1>9, SetWorkMoves DEF RowInv, MarkProviderExecutionStarted
  <2>3. RowsOK'
    BY <1>9 DEF RowInv, TypeOK, RowsOK, MarkProviderExecutionStarted, SetWork
  <2> QED BY <1>9, <2>1, <2>2, <2>3 DEF RowInv, TypeOK, MarkProviderExecutionStarted
<1>10. ASSUME NEW w \in Workers, CallProvider(w) PROVE RowInv'
  <2>1. work' \in [Workers -> Job]
    BY <1>10, SetWorkMoves DEF RowInv, CallProvider
  <2>2. /\ request' \in [Commands -> [state : {"none", "inflight", "ok", "error"}, version : Nat]]
        /\ calls' \in [Commands -> Nat]
    <3>1. work[w].cmd \in Commands
      BY <1>10 DEF RowInv, RowsOK, CallProvider
    <3> QED BY <1>10, <3>1 DEF RowInv, TypeOK, CallProvider
  <2>3. RowsOK'
    BY <1>10 DEF RowInv, TypeOK, RowsOK, CallProvider, SetWork
  <2> QED BY <1>10, <2>1, <2>2, <2>3 DEF RowInv, TypeOK, CallProvider
<1>11. ASSUME NEW w \in Workers, CompleteConfirmed(w) PROVE RowInv'
  <2>1. /\ work[w].cmd \in Commands /\ cmd[work[w].cmd].status # "none"
        /\ cmd[work[w].cmd].draft \in Drafts
    BY <1>11 DEF RowInv, RowsOK, CompleteConfirmed
  <2>2. request[work[w].cmd].version \in Nat
    BY <2>1 DEF RowInv, TypeOK
  <2>3. draft' \in [Drafts -> DraftRow] /\ Ends(work[w].cmd, "succeeded")
    BY <1>11, <2>1, <2>2, SucceedEnds DEF RowInv, CompleteConfirmed
  <2> QED BY <1>11, <2>1, <2>3, EndsKeepsRowInv DEF CompleteConfirmed
<1>12. ASSUME NEW w \in Workers, CatchBeforeMarker(w) PROVE RowInv'
  <2>1. cmd[work[w].cmd].status # "none"
    BY <1>12 DEF RowInv, RowsOK, CatchBeforeMarker
  <2> QED BY <1>12, <2>1, CatchBeforeMarkerEnds, EndsKeepsRowInv DEF CatchBeforeMarker
<1>13. ASSUME NEW w \in Workers, CatchAfterMarker(w) PROVE RowInv'
  <2>1. /\ work[w].cmd \in Commands /\ cmd[work[w].cmd].status # "none"
        /\ cmd[work[w].cmd].draft \in Drafts
    BY <1>13 DEF RowInv, RowsOK, CatchAfterMarker
  <2>2. draft' \in [Drafts -> DraftRow] /\ Ends(work[w].cmd, "recovery_required")
    BY <1>13, <2>1, RequireRecoveryEnds DEF RowInv, CatchAfterMarker
  <2> QED BY <1>13, <2>1, <2>2, EndsKeepsRowInv DEF CatchAfterMarker
<1>14. ASSUME NEW w \in Workers, Abandon(w) PROVE RowInv'
  BY <1>14 DEF RowInv, TypeOK, RowsOK, Abandon, Finish, Idle, Job
<1>15. ASSUME NEW w \in Workers, SearchByMessageId(w) PROVE RowInv'
  <2>1. work[w].cmd \in Commands /\ cmd[work[w].cmd].draft \in Drafts
    BY <1>15 DEF RowInv, RowsOK, SearchByMessageId
  <2>2. gmail[cmd[work[w].cmd].draft].version \in Nat
    BY <2>1 DEF RowInv, TypeOK
  <2>3. work' \in [Workers -> Job]
    BY <1>15, <2>2, SetWorkMoves DEF RowInv, SearchByMessageId
  <2>4. RowsOK'
    BY <1>15, <2>2, SetWorkMoves DEF RowInv, RowsOK, SearchByMessageId
  <2> QED BY <1>15, <2>3, <2>4 DEF RowInv, TypeOK, SearchByMessageId
<1>16. ASSUME NEW w \in Workers, CompleteRecovered(w) PROVE RowInv'
  <2>1. /\ work[w].cmd \in Commands /\ cmd[work[w].cmd].status # "none"
        /\ cmd[work[w].cmd].draft \in Drafts
    BY <1>16 DEF RowInv, RowsOK, CompleteRecovered
  <2>2. work[w].version \in Nat
    BY <2>1 DEF RowInv, TypeOK, Job
  <2>3. draft' \in [Drafts -> DraftRow] /\ Ends(work[w].cmd, "succeeded")
    BY <1>16, <2>1, <2>2, SucceedEnds DEF RowInv, CompleteRecovered
  <2> QED BY <1>16, <2>1, <2>3, EndsKeepsRowInv DEF CompleteRecovered
<1>17. ASSUME NEW w \in Workers, ReleaseRecoveryClaim(w) PROVE RowInv'
  <2>1. cmd' \in [Commands -> CommandRow]
    <3>1. \A c \in Commands :
            [cmd[c] EXCEPT !.owner = NoWorker, !.leased = FALSE] \in CommandRow
      BY TouchedRow DEF RowInv, TypeOK
    <3>2. work[w].cmd \in Commands
      BY <1>17 DEF RowInv, RowsOK, ReleaseRecoveryClaim
    <3> QED BY <1>17, <3>1, <3>2 DEF RowInv, TypeOK, ReleaseRecoveryClaim
  <2>2. work' \in [Workers -> Job]
    BY <1>17 DEF RowInv, TypeOK, ReleaseRecoveryClaim, Finish, Idle, Job
  <2>3. RowsOK'
    BY <1>17 DEF RowInv, TypeOK, RowsOK, ReleaseRecoveryClaim, Finish, Idle
  <2> QED BY <1>17, <2>1, <2>2, <2>3 DEF RowInv, TypeOK, ReleaseRecoveryClaim
<1>18. ASSUME NEW c \in Commands, LeaseExpires(c) PROVE RowInv'
  <2>1. cmd' \in [Commands -> CommandRow]
    <3>1. [cmd[c] EXCEPT !.leased = FALSE] \in CommandRow
      BY TouchedRow DEF RowInv, TypeOK
    <3> QED BY <1>18, <3>1 DEF RowInv, TypeOK, LeaseExpires
  <2>2. RowsOK'
    BY <1>18 DEF RowInv, TypeOK, RowsOK, LeaseExpires
  <2> QED BY <1>18, <2>1, <2>2 DEF RowInv, TypeOK, LeaseExpires
<1>19. ASSUME NEW c \in Commands, BackoffElapses(c) PROVE RowInv'
  <2>1. cmd' \in [Commands -> CommandRow]
    <3>1. [cmd[c] EXCEPT !.due = TRUE] \in CommandRow
      BY TouchedRow DEF RowInv, TypeOK
    <3> QED BY <1>19, <3>1 DEF RowInv, TypeOK, BackoffElapses
  <2>2. RowsOK'
    BY <1>19 DEF RowInv, TypeOK, RowsOK, BackoffElapses
  <2> QED BY <1>19, <2>1, <2>2 DEF RowInv, TypeOK, BackoffElapses
<1>20. ASSUME RecoverExpiredLeases PROVE RowInv'
  <2>1. \A c \in Commands : /\ cmd'[c] \in CommandRow
                            /\ cmd'[c].type = cmd[c].type
                            /\ cmd'[c].draft = cmd[c].draft
                            /\ cmd'[c].status = "none" <=> cmd[c].status = "none"
    BY <1>20, RecoveredRow DEF RowInv
  <2>2. cmd' \in [Commands -> CommandRow]
    BY <1>20, <2>1 DEF RecoverExpiredLeases
  <2>3. draft' \in [Drafts -> DraftRow]
    <3>1. \A d \in Drafts : /\ draft[d] \in DraftRow
                            /\ [draft[d] EXCEPT !.status = "recovery_required"] \in DraftRow
      BY DraftStatusRow DEF RowInv, TypeOK
    <3> QED BY <1>20, <3>1 DEF RecoverExpiredLeases
  <2>4. RowsOK'
    BY <1>20, <2>1 DEF RowInv, RowsOK, RecoverExpiredLeases
  <2> QED BY <1>20, <2>2, <2>3, <2>4 DEF RowInv, TypeOK, RecoverExpiredLeases
<1>21. ASSUME RepairInconsistentDraftStates PROVE RowInv'
  <2>1. draft' \in [Drafts -> DraftRow]
    <3>1. \A d \in Drafts : /\ draft[d] \in DraftRow
                            /\ [draft[d] EXCEPT !.status = "recovery_required"] \in DraftRow
      BY DraftStatusRow DEF RowInv, TypeOK
    <3> QED BY <1>21, <3>1 DEF RepairInconsistentDraftStates
  <2> QED BY <1>21, <2>1 DEF RowInv, TypeOK, RowsOK, RepairInconsistentDraftStates
<1>22. ASSUME NEW c \in Commands, GmailAccepts(c) PROVE RowInv'
  <2> DEFINE d == cmd[c].draft
  <2>1. d \in Drafts /\ cmd[c].type \in Types
    BY <1>22 DEF RowInv, RowsOK, GmailAccepts
  <2>2. gmail[d] \in [copies : Nat, version : Nat, sent : Nat]
    BY <2>1 DEF RowInv, TypeOK
  <2>3. ApplyMutation(c) \in [copies : Nat, version : Nat, sent : Nat]
    <3> DEFINE g == gmail[d]
    <3>1. CASE cmd[c].type = "create"
      <4>1. g.copies + 1 \in Nat /\ g.version + 1 \in Nat
        BY <2>2
      <4>2. ApplyMutation(c) = [g EXCEPT !.copies = @ + 1, !.version = @ + 1]
        BY <3>1 DEF ApplyMutation
      <4> QED BY <2>2, <4>1, <4>2
    <3>2. CASE cmd[c].type = "update"
      BY <2>2, <3>2 DEF ApplyMutation
    <3>3. CASE cmd[c].type = "send"
      <4>1. g.copies > 0
        BY <1>22, <3>3 DEF GmailAccepts, CanApply
      <4>2. g.copies - 1 \in Nat /\ g.sent + 1 \in Nat
        BY <2>2, <4>1
      <4>3. ApplyMutation(c) = [g EXCEPT !.copies = @ - 1, !.sent = @ + 1]
        BY <3>3 DEF ApplyMutation
      <4> QED BY <2>2, <4>2, <4>3
    <3> QED BY <2>1, <3>1, <3>2, <3>3 DEF Types
  <2>4. gmail' \in [Drafts -> [copies : Nat, version : Nat, sent : Nat]] /\ gmail'[d].version \in Nat
    BY <1>22, <2>1, <2>3 DEF RowInv, TypeOK, GmailAccepts
  <2>5. request' \in [Commands -> [state : {"none", "inflight", "ok", "error"}, version : Nat]]
    BY <1>22, <2>4 DEF RowInv, TypeOK, GmailAccepts
  <2>6. RowsOK'
    BY <1>22 DEF RowInv, TypeOK, RowsOK, GmailAccepts
  <2> QED BY <1>22, <2>4, <2>5, <2>6 DEF RowInv, TypeOK, GmailAccepts
<1>23. ASSUME NEW c \in Commands, GmailRefuses(c) PROVE RowInv'
  BY <1>23 DEF RowInv, TypeOK, RowsOK, GmailRefuses
<1>24. ASSUME NEW d \in Drafts, GmailUserEdits(d) \/ GmailUserDeletes(d) \/ GmailUserSends(d)
       PROVE  RowInv'
  <2>1. gmail' \in [Drafts -> [copies : Nat, version : Nat, sent : Nat]]
    <3> DEFINE g == gmail[d]
    <3>1. g \in [copies : Nat, version : Nat, sent : Nat]
      BY DEF RowInv, TypeOK
    <3>2. CASE GmailUserEdits(d)
      BY <3>1, <3>2 DEF RowInv, TypeOK, GmailUserEdits
    <3>3. CASE GmailUserDeletes(d)
      BY <3>1, <3>3 DEF RowInv, TypeOK, GmailUserDeletes
    <3>4. CASE GmailUserSends(d)
      <4>1. g.copies - 1 \in Nat /\ g.sent + 1 \in Nat
        BY <3>1, <3>4 DEF GmailUserSends
      <4>2. [g EXCEPT !.copies = @ - 1, !.sent = @ + 1] \in [copies : Nat, version : Nat, sent : Nat]
        BY <3>1, <4>1
      <4>3. gmail' = [gmail EXCEPT ![d] = [g EXCEPT !.copies = @ - 1, !.sent = @ + 1]]
        BY <3>4 DEF GmailUserSends, RowInv, TypeOK
      <4> QED BY <4>2, <4>3 DEF RowInv, TypeOK
    <3> QED BY <1>24, <3>2, <3>3, <3>4
  <2> QED BY <1>24, <2>1
          DEF RowInv, TypeOK, RowsOK, GmailUserEdits, GmailUserDeletes, GmailUserSends
<1> QED
  BY <1>0, <1>1, <1>2, <1>3, <1>4, <1>5, <1>6, <1>7, <1>8, <1>9, <1>10, <1>11, <1>12, <1>13,
     <1>14, <1>15, <1>16, <1>17, <1>18, <1>19, <1>20, <1>21, <1>22, <1>23, <1>24
     DEF Next, UserRequests, WorkerStep, ExecutionStep, VerificationStep, Passage, Maintenance, Gmail

\* For every number of drafts, commands and slots, each reachable state is typed.
THEOREM TypeCorrect == Spec => []TypeOK
<1>1. Spec => []RowInv
  BY RowInvInit, RowInvNext, PTL DEF Spec
<1> QED BY <1>1, PTL DEF RowInv

------------------------------------------------------------------------------
(* At most one call.  The marker separates the attempts that may still be       *)
(* repeated from the single one that calls Gmail: a command that can be claimed  *)
(* is unmarked, a slot whose claim is live finds it unmarked until it marks it,   *)
(* and at most one slot is ever past the marker of a command.                     *)

UnmarkedUntilExecuted ==
  \A c \in Commands : cmd[c].status \in {"none", "pending", "retryable"} => ~cmd[c].marked

CalledIsMarked == \A c \in Commands : calls[c] # 0 => cmd[c].marked

SlotsRespectMarker ==
  \A w \in Workers :
    /\ work[w].pc \in PostMarker => cmd[work[w].cmd].marked
    /\ work[w].pc \in PreMarker /\ Executing(w) => ~cmd[work[w].cmd].marked
    /\ work[w].pc \in {"marked", "unseen"} => calls[work[w].cmd] = 0

OnePastMarker ==
  \A v, w \in Workers :
    work[v].pc \in PostMarker /\ work[w].pc \in PostMarker /\ work[v].cmd = work[w].cmd => v = w

FailedIsUncalled ==
  \A c \in Commands : cmd[c].status = "failed" =>
    /\ calls[c] = 0
    /\ \A w \in Workers : work[w].cmd = c => work[w].pc # "marked"

CallInv ==
  /\ UnmarkedUntilExecuted
  /\ CalledIsMarked
  /\ SlotsRespectMarker
  /\ OnePastMarker
  /\ FailedIsUncalled
  /\ AtMostOneCall

\* The invariant gives both properties.
LEMMA CallInvImplies == RowInv /\ CallInv => AtMostOneCall /\ OnlyUncalledRetriedOrFailed
BY DEF RowInv, RowsOK, CallInv, UnmarkedUntilExecuted, CalledIsMarked, SlotsRespectMarker, FailedIsUncalled,
       OnlyUncalledRetriedOrFailed, PostMarker, TypeOK

\* The empty tables satisfy the call invariant.
LEMMA CallInvInit == Init => CallInv
BY DEF Init, CallInv, UnmarkedUntilExecuted, CalledIsMarked, SlotsRespectMarker, OnePastMarker,
       FailedIsUncalled, AtMostOneCall, NoRow, Idle, PreMarker, PostMarker

\* Steps that leave the slots and the history alone and keep every existing
\* row's marker and claim, or weaken its claim, keep the invariant.
LEMMA RowStepKeepsCallInv ==
  ASSUME RowInv, CallInv, UNCHANGED <<work, calls>>,
         \A c \in Commands :
           /\ cmd'[c].marked = cmd[c].marked
           /\ cmd'[c].status \in {"none", "pending", "retryable"} =>
                cmd[c].status \in {"none", "pending", "retryable"} \/ ~cmd[c].marked
           /\ cmd'[c].status = "failed" => cmd[c].status = "failed"
           /\ cmd'[c].status = "running" =>
                /\ cmd[c].status = "running"
                /\ cmd'[c].owner = cmd[c].owner
                /\ cmd'[c].leased => cmd[c].leased
  PROVE  CallInv'
<1>1. \A w \in Workers : work[w].pc # "idle" => work[w].cmd \in Commands
  BY DEF RowInv, RowsOK
<1>2. UnmarkedUntilExecuted' /\ CalledIsMarked' /\ OnePastMarker' /\ FailedIsUncalled' /\ AtMostOneCall'
  BY DEF CallInv, UnmarkedUntilExecuted, CalledIsMarked, OnePastMarker, FailedIsUncalled, AtMostOneCall
<1>3. SlotsRespectMarker'
  BY <1>1 DEF CallInv, SlotsRespectMarker, Executing, HoldsClaim, PreMarker, PostMarker
<1> QED BY <1>2, <1>3 DEF CallInv

\* A job that ends leaves the invariant as it is, provided a command it fails or
\* hands back for a retry has not been called and is not about to be.
LEMMA EndsKeepsCallInv ==
  ASSUME RowInv, CallInv, NEW w \in Workers, NEW c \in Commands, work[w].cmd = c,
         Finish(w), UNCHANGED calls,
         NEW status \in {"succeeded", "failed", "retryable", "recovery_required"},
         Ends(c, status),
         status = "retryable" => ~cmd[c].marked,
         status = "failed" => calls[c] = 0 /\ \A v \in Workers \ {w} :
                                                work[v].cmd = c => work[v].pc # "marked"
  PROVE  CallInv'
<1>1. /\ work'[w] = Idle
      /\ \A v \in Workers \ {w} : work'[v] = work[v]
  BY DEF RowInv, TypeOK, Finish
<1>2. \A v \in Workers : work[v].pc # "idle" => work[v].cmd \in Commands
  BY DEF RowInv, RowsOK
<1>3. UnmarkedUntilExecuted' /\ CalledIsMarked' /\ AtMostOneCall'
  BY DEF CallInv, UnmarkedUntilExecuted, CalledIsMarked, AtMostOneCall, Ends
<1>4. SlotsRespectMarker'
  BY <1>1, <1>2 DEF CallInv, SlotsRespectMarker, Executing, HoldsClaim, PreMarker, PostMarker, Ends, Idle
<1>5. OnePastMarker'
  BY <1>1 DEF CallInv, OnePastMarker, PostMarker, Idle
<1>6. FailedIsUncalled'
  BY <1>1 DEF CallInv, FailedIsUncalled, Ends, Idle
<1> QED BY <1>3, <1>4, <1>5, <1>6 DEF CallInv

\* A claim may only be taken of an unmarked command.
LEMMA ClaimKeepsCallInv ==
  ASSUME RowInv, CallInv, NEW w \in Workers, NEW c \in Commands, ClaimCommand(w, c)
  PROVE  CallInv'
<1>1. /\ ~cmd[c].marked
      /\ \A x \in Commands : cmd'[x].marked = cmd[x].marked
      /\ \A x \in Commands \ {c} : cmd'[x] = cmd[x]
      /\ cmd'[c].status = "running" /\ cmd'[c].owner = w
      /\ work'[w].pc = "claimed" /\ work'[w].cmd = c
      /\ \A v \in Workers \ {w} : work'[v] = work[v]
      /\ calls' = calls
  BY DEF RowInv, TypeOK, ClaimCommand, CallInv, UnmarkedUntilExecuted, CommandRow
<1>2. \A v \in Workers : work[v].pc # "idle" => work[v].cmd \in Commands
  BY DEF RowInv, RowsOK
<1>3. UnmarkedUntilExecuted' /\ CalledIsMarked' /\ AtMostOneCall' /\ OnePastMarker'
  BY <1>1 DEF CallInv, UnmarkedUntilExecuted, CalledIsMarked, AtMostOneCall, OnePastMarker, PostMarker
<1>4. SlotsRespectMarker'
  BY <1>1, <1>2 DEF CallInv, SlotsRespectMarker, Executing, HoldsClaim, PreMarker, PostMarker
<1>5. FailedIsUncalled'
  BY <1>1 DEF CallInv, FailedIsUncalled
<1> QED BY <1>3, <1>4, <1>5 DEF CallInv

\* A verification claims a command that only verifications can settle.
LEMMA ClaimRecoveryKeepsCallInv ==
  ASSUME RowInv, CallInv, NEW w \in Workers, NEW c \in Commands, ClaimRecovery(w, c)
  PROVE  CallInv'
<1>1. /\ \A x \in Commands : cmd'[x].marked = cmd[x].marked /\ cmd'[x].status = cmd[x].status
      /\ \A x \in Commands \ {c} : cmd'[x] = cmd[x]
      /\ cmd[c].status = "recovery_required"
      /\ work'[w].pc = "verifying" /\ work'[w].cmd = c
      /\ \A v \in Workers \ {w} : work'[v] = work[v]
      /\ calls' = calls
  BY DEF RowInv, TypeOK, ClaimRecovery, CommandRow
<1>2. \A v \in Workers : work[v].pc # "idle" => work[v].cmd \in Commands
  BY DEF RowInv, RowsOK
<1>3. UnmarkedUntilExecuted' /\ CalledIsMarked' /\ AtMostOneCall' /\ OnePastMarker'
  BY <1>1 DEF CallInv, UnmarkedUntilExecuted, CalledIsMarked, AtMostOneCall, OnePastMarker, PostMarker
<1>4. SlotsRespectMarker'
  BY <1>1, <1>2 DEF CallInv, SlotsRespectMarker, Executing, HoldsClaim, PreMarker, PostMarker
<1>5. FailedIsUncalled'
  BY <1>1 DEF CallInv, FailedIsUncalled
<1> QED BY <1>3, <1>4, <1>5 DEF CallInv

\* Moving a slot without entering the post-marker region changes nothing.
LEMMA MoveKeepsCallInv ==
  ASSUME RowInv, CallInv, NEW w \in Workers, NEW version \in Nat,
         NEW pc \in {"loaded", "conflicted", "checked", "found"},
         SetWork(w, pc, version), UNCHANGED <<cmd, calls>>,
         work[w].pc \in PreMarker \/ pc = "found"
  PROVE  CallInv'
<1>1. /\ work'[w].pc = pc /\ work'[w].cmd = work[w].cmd
      /\ \A v \in Workers \ {w} : work'[v] = work[v]
  BY SetWorkMoves DEF RowInv
<1>2. UnmarkedUntilExecuted' /\ CalledIsMarked' /\ AtMostOneCall'
  BY DEF CallInv, UnmarkedUntilExecuted, CalledIsMarked, AtMostOneCall
<1>3. SlotsRespectMarker'
  BY <1>1 DEF CallInv, SlotsRespectMarker, Executing, HoldsClaim, PreMarker, PostMarker
<1>4. OnePastMarker' /\ FailedIsUncalled'
  BY <1>1 DEF CallInv, OnePastMarker, FailedIsUncalled, PostMarker
<1> QED BY <1>2, <1>3, <1>4 DEF CallInv

\* The slot that marks a command is the first one past its marker.
LEMMA MarkKeepsCallInv ==
  ASSUME RowInv, CallInv, NEW w \in Workers, MarkProviderExecutionStarted(w)
  PROVE  CallInv'
<1> DEFINE c == work[w].cmd
<1>1. c \in Commands /\ \A v \in Workers : work[v].pc # "idle" => work[v].cmd \in Commands
  BY DEF RowInv, RowsOK, MarkProviderExecutionStarted
<1>2. /\ work'[w].pc \in {"marked", "unseen"} /\ work'[w].cmd = c
      /\ \A v \in Workers \ {w} : work'[v] = work[v]
  BY SetWorkMoves DEF RowInv, MarkProviderExecutionStarted
<1>3. /\ cmd'[c].marked
      /\ \A x \in Commands \ {c} : cmd'[x] = cmd[x]
      /\ cmd'[c].status = "running" /\ cmd[c].status = "running"
      /\ cmd'[c].owner = w /\ cmd[c].owner = w
      /\ calls' = calls
  BY <1>1 DEF RowInv, TypeOK, MarkProviderExecutionStarted, Executing, HoldsClaim, CommandRow
<1>4. ~cmd[c].marked /\ calls[c] = 0
  BY <1>1 DEF CallInv, SlotsRespectMarker, CalledIsMarked, MarkProviderExecutionStarted, PreMarker
<1>5. UnmarkedUntilExecuted' /\ CalledIsMarked' /\ AtMostOneCall'
  BY <1>3 DEF CallInv, UnmarkedUntilExecuted, CalledIsMarked, AtMostOneCall
<1>6. SlotsRespectMarker'
  BY <1>1, <1>2, <1>3, <1>4
     DEF CallInv, SlotsRespectMarker, Executing, HoldsClaim, PreMarker, PostMarker
<1>7. OnePastMarker'
  BY <1>2, <1>4 DEF CallInv, OnePastMarker, SlotsRespectMarker, PostMarker
<1>8. FailedIsUncalled'
  BY <1>1, <1>2, <1>3 DEF CallInv, FailedIsUncalled
<1> QED BY <1>5, <1>6, <1>7, <1>8 DEF CallInv

\* The call is issued by the only slot past the marker, and has not been before.
LEMMA CallKeepsCallInv ==
  ASSUME RowInv, CallInv, NEW w \in Workers, CallProvider(w)
  PROVE  CallInv'
<1> DEFINE c == work[w].cmd
<1>1. c \in Commands /\ \A v \in Workers : work[v].pc # "idle" => work[v].cmd \in Commands
  BY DEF RowInv, RowsOK, CallProvider
<1>2. /\ work'[w].pc = "calling" /\ work'[w].cmd = c
      /\ \A v \in Workers \ {w} : work'[v] = work[v]
  BY SetWorkMoves DEF RowInv, CallProvider
<1>3. /\ calls[c] = 0 /\ calls'[c] = 1
      /\ \A x \in Commands \ {c} : calls'[x] = calls[x]
      /\ cmd' = cmd
  BY <1>1 DEF RowInv, TypeOK, CallInv, SlotsRespectMarker, CallProvider
<1>4. cmd[c].marked /\ cmd[c].status # "failed"
  BY <1>1 DEF CallInv, SlotsRespectMarker, FailedIsUncalled, CallProvider, PostMarker
<1>5. \A v \in Workers \ {w} : work[v].cmd = c => work[v].pc \notin PostMarker
  BY DEF CallInv, OnePastMarker, CallProvider, PostMarker
<1>6. UnmarkedUntilExecuted' /\ CalledIsMarked' /\ AtMostOneCall'
  BY <1>3, <1>4 DEF CallInv, UnmarkedUntilExecuted, CalledIsMarked, AtMostOneCall
<1>7. SlotsRespectMarker'
  BY <1>1, <1>2, <1>3, <1>4, <1>5
     DEF CallInv, SlotsRespectMarker, Executing, HoldsClaim, PreMarker, PostMarker
<1>8. OnePastMarker'
  BY <1>2, <1>5 DEF CallInv, OnePastMarker
<1>9. FailedIsUncalled'
  BY <1>2, <1>3, <1>4 DEF CallInv, FailedIsUncalled
<1> QED BY <1>6, <1>7, <1>8, <1>9 DEF CallInv

\* A new command is unmarked, and its row replaced an unmarked row.
LEMMA RequestKeepsCallInv ==
  ASSUME RowInv, CallInv, NEW d \in Drafts, NEW c \in Commands,
         CreateDraft(d, c) \/ UpdateDraft(d, c) \/ SendDraft(d, c)
  PROVE  CallInv'
<1>1. /\ cmd[c].status = "none"
      /\ cmd'[c].status = "pending" /\ cmd'[c].marked = FALSE
      /\ \A x \in Commands \ {c} : cmd'[x] = cmd[x]
  BY DEF RowInv, TypeOK, CreateDraft, UpdateDraft, SendDraft, NewKey, PendingCommand
<1>2. cmd[c].marked = FALSE
  BY <1>1 DEF RowInv, TypeOK, CommandRow, CallInv, UnmarkedUntilExecuted
<1>3. \A x \in Commands : cmd'[x].marked = cmd[x].marked
  BY <1>1, <1>2
<1>4. UNCHANGED <<work, calls>>
  BY DEF CreateDraft, UpdateDraft, SendDraft
<1> QED BY <1>1, <1>2, <1>3, <1>4, RowStepKeepsCallInv

\* The catch block hands back or fails only what was not called.
LEMMA CatchKeepsCallInv ==
  ASSUME RowInv, CallInv, NEW w \in Workers, CatchBeforeMarker(w)
  PROVE  CallInv'
<1> DEFINE c == work[w].cmd
<1>1. c \in Commands
  BY CatchBeforeMarkerEnds
<1>2. PICK status \in {"failed", "retryable", "recovery_required"} :
        Ends(c, status) /\ (status = "retryable" => work[w].pc = "loaded")
  BY CatchBeforeMarkerEnds
<1>3. Finish(w) /\ UNCHANGED calls
  BY DEF CatchBeforeMarker
<1>4. work[w].pc = "unseen" \/ ~cmd[c].marked
  BY DEF CatchBeforeMarker, CallInv, SlotsRespectMarker, PreMarker
<1>5. calls[c] = 0 /\ \A v \in Workers \ {w} : work[v].cmd = c => work[v].pc # "marked"
  <2>1. CASE work[w].pc = "unseen"
    BY <2>1 DEF CallInv, SlotsRespectMarker, OnePastMarker, PostMarker
  <2>2. CASE ~cmd[c].marked
    BY <1>1, <2>2 DEF CallInv, SlotsRespectMarker, CalledIsMarked, PostMarker
  <2> QED BY <1>4, <2>1, <2>2
<1>6. status = "retryable" => ~cmd[c].marked
  BY <1>2, <1>4
<1> QED BY <1>1, <1>2, <1>3, <1>5, <1>6, EndsKeepsCallInv

\* A conflict is found before the marker: the failed command was never called.
LEMMA ConflictKeepsCallInv ==
  ASSUME RowInv, CallInv, NEW w \in Workers, CompleteConflict(w)
  PROVE  CallInv'
<1> DEFINE c == work[w].cmd
<1>1. c \in Commands
  BY DEF RowInv, RowsOK, CompleteConflict
<1>2. Ends(c, "failed")
  BY <1>1, SettleEnds DEF RowInv, CompleteConflict
<1>3. ~cmd[c].marked
  BY DEF CompleteConflict, CallInv, SlotsRespectMarker, PreMarker
<1>4. calls[c] = 0 /\ \A v \in Workers \ {w} : work[v].cmd = c => work[v].pc # "marked"
  BY <1>1, <1>3 DEF CallInv, SlotsRespectMarker, CalledIsMarked, PostMarker
<1>5. Finish(w) /\ UNCHANGED calls
  BY DEF CompleteConflict
<1> QED BY <1>1, <1>2, <1>4, <1>5, EndsKeepsCallInv

\* Confirmations and uncertainty after the marker neither fail nor retry.
LEMMA ConfirmKeepsCallInv ==
  ASSUME RowInv, CallInv, NEW w \in Workers,
         CompleteConfirmed(w) \/ CatchAfterMarker(w) \/ CompleteRecovered(w)
  PROVE  CallInv'
<1> DEFINE c == work[w].cmd
<1>1. c \in Commands /\ cmd[c].draft \in Drafts
  BY DEF RowInv, RowsOK, CompleteConfirmed, CatchAfterMarker, CompleteRecovered
<1>2. request[c].version \in Nat /\ work[w].version \in Nat
  BY <1>1 DEF RowInv, TypeOK, Job
<1>3. Ends(c, "succeeded") \/ Ends(c, "recovery_required")
  BY <1>1, <1>2, SucceedEnds, RequireRecoveryEnds
     DEF RowInv, CompleteConfirmed, CatchAfterMarker, CompleteRecovered
<1>4. Finish(w) /\ UNCHANGED calls
  BY DEF CompleteConfirmed, CatchAfterMarker, CompleteRecovered
<1> QED BY <1>1, <1>3, <1>4, EndsKeepsCallInv

\* Ending a job without writing its command's status or marker.
LEMMA LeaveKeepsCallInv ==
  ASSUME RowInv, CallInv, NEW w \in Workers, Abandon(w) \/ ReleaseRecoveryClaim(w)
  PROVE  CallInv'
<1>1. /\ work'[w] = Idle
      /\ \A v \in Workers \ {w} : work'[v] = work[v]
      /\ calls' = calls
  BY DEF RowInv, TypeOK, Abandon, ReleaseRecoveryClaim, Finish
<1>2. \A c \in Commands :
        /\ cmd'[c].status = cmd[c].status /\ cmd'[c].marked = cmd[c].marked
        /\ cmd[c].status # "recovery_required" => cmd'[c] = cmd[c]
  BY DEF RowInv, TypeOK, RowsOK, CommandRow, Abandon, ReleaseRecoveryClaim
<1>3. \A v \in Workers : work[v].pc # "idle" => work[v].cmd \in Commands
  BY DEF RowInv, RowsOK
<1>4. UnmarkedUntilExecuted' /\ CalledIsMarked' /\ AtMostOneCall'
  BY <1>1, <1>2 DEF CallInv, UnmarkedUntilExecuted, CalledIsMarked, AtMostOneCall
<1>5. SlotsRespectMarker'
  BY <1>1, <1>2, <1>3
     DEF CallInv, SlotsRespectMarker, Executing, HoldsClaim, PreMarker, PostMarker, Idle
<1>6. OnePastMarker' /\ FailedIsUncalled'
  BY <1>1, <1>2 DEF CallInv, OnePastMarker, FailedIsUncalled, PostMarker, Idle
<1> QED BY <1>4, <1>5, <1>6 DEF CallInv

\* Time and lease recovery only weaken claims, and hand back unmarked commands only.
LEMMA TimeKeepsCallInv ==
  ASSUME RowInv, CallInv, Passage \/ RecoverExpiredLeases
  PROVE  CallInv'
<1>1. UNCHANGED <<work, calls>>
  BY DEF Passage, LeaseExpires, BackoffElapses, RecoverExpiredLeases
<1>2. CASE Passage
  <2>1. \A c \in Commands :
          /\ cmd'[c].marked = cmd[c].marked /\ cmd'[c].status = cmd[c].status
          /\ cmd'[c].owner = cmd[c].owner
          /\ cmd'[c].leased => cmd[c].leased
    <3> SUFFICES ASSUME NEW c \in Commands, NEW x \in Commands, LeaseExpires(x) \/ BackoffElapses(x)
                 PROVE  /\ cmd'[c].marked = cmd[c].marked /\ cmd'[c].status = cmd[c].status
                        /\ cmd'[c].owner = cmd[c].owner
                        /\ cmd'[c].leased => cmd[c].leased
      BY <1>2 DEF Passage
    <3>1. cmd[c] \in CommandRow /\ cmd \in [Commands -> CommandRow]
      BY DEF RowInv, TypeOK
    <3>2. CASE LeaseExpires(x)
      BY <3>1, <3>2 DEF LeaseExpires, CommandRow
    <3>3. CASE BackoffElapses(x)
      BY <3>1, <3>3 DEF BackoffElapses, CommandRow
    <3> QED BY <3>2, <3>3
  <2> QED BY <1>1, <2>1, RowStepKeepsCallInv
<1>3. CASE RecoverExpiredLeases
  <2>1. \A c \in Commands :
          /\ cmd'[c].marked = cmd[c].marked
          /\ \/ cmd'[c] = cmd[c]
             \/ /\ cmd'[c].status = RecoveredStatus(c)
                /\ cmd'[c].status \in {"retryable", "recovery_required"}
    BY <1>3, RecoveredRow DEF RowInv
  <2>2. \A c \in Commands : cmd'[c].status = "retryable" => cmd'[c] = cmd[c] \/ ~cmd[c].marked
    BY <2>1 DEF RecoveredStatus
  <2> QED BY <1>1, <2>1, <2>2, RowStepKeepsCallInv
<1> QED BY <1>2, <1>3

\* The invariant is inductive relative to the row invariant.
LEMMA CallInvNext == RowInv /\ CallInv /\ [Next]_vars => CallInv'
<1> SUFFICES ASSUME RowInv, CallInv, [Next]_vars PROVE CallInv'
  OBVIOUS
<1>1. CASE UNCHANGED <<cmd, work, calls>>
  BY <1>1 DEF CallInv, UnmarkedUntilExecuted, CalledIsMarked, SlotsRespectMarker, OnePastMarker,
              FailedIsUncalled, AtMostOneCall, Executing, HoldsClaim
<1>2. CASE UNCHANGED vars \/ Gmail \/ RepairInconsistentDraftStates
  <2>1. UNCHANGED <<cmd, work, calls>>
    BY <1>2 DEF vars, Gmail, GmailAccepts, GmailRefuses, GmailUserEdits, GmailUserDeletes,
                GmailUserSends, RepairInconsistentDraftStates
  <2> QED BY <1>1, <2>1
<1>3. CASE UserRequests
  BY <1>3, RequestKeepsCallInv DEF UserRequests
<1>4. CASE Passage \/ RecoverExpiredLeases
  BY <1>4, TimeKeepsCallInv
<1>5. ASSUME NEW w \in Workers, NEW c \in Commands, ClaimCommand(w, c) \/ ClaimRecovery(w, c)
      PROVE  CallInv'
  BY <1>5, ClaimKeepsCallInv, ClaimRecoveryKeepsCallInv
<1>6. ASSUME NEW w \in Workers, LoadDraft(w) PROVE CallInv'
  <2>1. work[w].cmd \in Commands /\ cmd[work[w].cmd].draft \in Drafts
    BY <1>6 DEF RowInv, RowsOK, LoadDraft
  <2>2. draft[cmd[work[w].cmd].draft].provider \in Nat
    BY <2>1 DEF RowInv, TypeOK, DraftRow
  <2> QED BY <1>6, <2>2, MoveKeepsCallInv DEF LoadDraft, PreMarker
<1>7. ASSUME NEW w \in Workers, PreflightGetDraft(w) PROVE CallInv'
  BY <1>7, MoveKeepsCallInv DEF PreflightGetDraft, PreMarker
<1>8. ASSUME NEW w \in Workers, SearchByMessageId(w) PROVE CallInv'
  <2>1. work[w].cmd \in Commands /\ cmd[work[w].cmd].draft \in Drafts
    BY <1>8 DEF RowInv, RowsOK, SearchByMessageId
  <2>2. gmail[cmd[work[w].cmd].draft].version \in Nat
    BY <2>1 DEF RowInv, TypeOK
  <2> QED BY <1>8, <2>2, MoveKeepsCallInv DEF SearchByMessageId
<1>9. ASSUME NEW w \in Workers,
             CompleteConflict(w) \/ MarkProviderExecutionStarted(w) \/ CallProvider(w)
             \/ CatchBeforeMarker(w)
      PROVE  CallInv'
  BY <1>9, ConflictKeepsCallInv, MarkKeepsCallInv, CallKeepsCallInv, CatchKeepsCallInv
<1>10. ASSUME NEW w \in Workers,
              CompleteConfirmed(w) \/ CatchAfterMarker(w) \/ CompleteRecovered(w)
       PROVE  CallInv'
  BY <1>10, ConfirmKeepsCallInv
<1>11. ASSUME NEW w \in Workers, Abandon(w) \/ ReleaseRecoveryClaim(w) PROVE CallInv'
  BY <1>11, LeaveKeepsCallInv
<1> QED BY <1>2, <1>3, <1>4, <1>5, <1>6, <1>7, <1>8, <1>9, <1>10, <1>11
        DEF Next, WorkerStep, ExecutionStep, VerificationStep, Maintenance

\* Both invariants hold together.
LEMMA Safety == Spec => [](RowInv /\ CallInv)
<1>1. Init => RowInv /\ CallInv
  BY RowInvInit, CallInvInit
<1>2. (RowInv /\ CallInv) /\ [Next]_vars => (RowInv /\ CallInv)'
  BY RowInvNext, CallInvNext
<1> QED BY <1>1, <1>2, PTL DEF Spec

\* However many slots, crashes, lease expiries and redeliveries there are, no
\* command sends its Gmail mutation twice.
THEOREM NoSecondCall == Spec => []AtMostOneCall
<1>1. RowInv /\ CallInv => AtMostOneCall
  BY CallInvImplies
<1> QED BY <1>1, Safety, PTL

\* A command reported as failed or waiting for execution never reached Gmail, and
\* no slot is about to call Gmail for it.
THEOREM FailureIsCertain == Spec => []OnlyUncalledRetriedOrFailed
<1>1. RowInv /\ CallInv => OnlyUncalledRetriedOrFailed
  BY CallInvImplies
<1> QED BY <1>1, Safety, PTL

------------------------------------------------------------------------------
(* Ownership.  An active command owns its draft, and no two commands of a draft *)
(* stand for the same mutation.                                               *)

\* Only existing drafts have commands.
CommandsHaveDrafts ==
  \A c \in Commands : cmd[c].status # "none" => draft[cmd[c].draft].status # "none"

\* A draft that was ever asked to be sent is never offered again.
SendsBlockDraft ==
  \A c \in Commands : cmd[c].status # "none" /\ cmd[c].type = "send" =>
    draft[cmd[c].draft].status \in {"sending", "sent", "conflict", "recovery_required"}

\* No command is ahead of its draft.
RevisionsBounded ==
  \A c \in Commands : cmd[c].status # "none" => cmd[c].revision <= draft[cmd[c].draft].revision

OwnInv ==
  /\ ActiveCommandOwnsDraft
  /\ CommandsHaveDrafts
  /\ SendsBlockDraft
  /\ RevisionsBounded
  /\ NoDuplicateMutation

\* A send whose outcome is uncertain: the active command that is not in progress.
Uncertain(row) == row.type = "send" /\ row.status = "recovery_required"

\* The commands keep what they stand for.
KeepsIdentity ==
  \A c \in Commands : /\ cmd'[c].type = cmd[c].type
                      /\ cmd'[c].draft = cmd[c].draft
                      /\ cmd'[c].revision = cmd[c].revision
                      /\ cmd'[c].status = "none" <=> cmd[c].status = "none"

\* The empty tables satisfy the ownership invariant.
LEMMA OwnInvInit == Init => OwnInv
BY DEF Init, NoRow, OwnInv, ActiveCommandOwnsDraft, CommandsHaveDrafts, SendsBlockDraft,
       RevisionsBounded, NoDuplicateMutation, Active

\* Ending a command keeps what all commands stand for.
LEMMA EndsKeepsIdentity ==
  ASSUME NEW c \in Commands, cmd[c].status # "none",
         NEW status \in {"succeeded", "failed", "retryable", "recovery_required"}, Ends(c, status)
  PROVE  KeepsIdentity
BY DEF Ends, KeepsIdentity

\* A step that keeps the identities keeps NoDuplicateMutation.
LEMMA IdentityKeepsDistinct ==
  ASSUME NoDuplicateMutation, KeepsIdentity
  PROVE  NoDuplicateMutation'
BY DEF NoDuplicateMutation, KeepsIdentity

\* A step that leaves the drafts alone and starts no command, and makes a send
\* uncertain only if it was.
LEMMA QuietStep ==
  ASSUME OwnInv, KeepsIdentity, draft' = draft,
         \A c \in Commands : cmd'[c].status \in Active =>
           cmd[c].status \in Active /\ (Uncertain(cmd'[c]) <=> Uncertain(cmd[c]))
  PROVE  OwnInv'
<1>1. ActiveCommandOwnsDraft'
  BY DEF OwnInv, ActiveCommandOwnsDraft, KeepsIdentity, Uncertain
<1>2. CommandsHaveDrafts' /\ SendsBlockDraft' /\ RevisionsBounded'
  BY DEF OwnInv, CommandsHaveDrafts, SendsBlockDraft, RevisionsBounded, KeepsIdentity
<1>3. NoDuplicateMutation'
  BY IdentityKeepsDistinct DEF OwnInv
<1> QED BY <1>1, <1>2, <1>3 DEF OwnInv

\* The owner c of a draft d is settled and d leaves its in-progress status: no other
\* command of d is active, and only a create or an update makes it ready again.
LEMMA OwnerSettles ==
  ASSUME RowInv, OwnInv, NEW c \in Commands, cmd[c].status \in Active,
         NEW status \in {"succeeded", "failed", "recovery_required"}, Ends(c, status),
         NEW d \in Drafts, d = cmd[c].draft,
         draft'[d].last = c, draft'[d].revision = draft[d].revision,
         draft'[d].status \in {"ready", "sent", "conflict", "recovery_required"},
         draft'[d].status = "ready" => cmd[c].type # "send",
         status = "recovery_required" =>
           cmd[c].type = "send" /\ draft'[d].status = "recovery_required",
         \A e \in Drafts \ {d} : draft'[e] = draft[e]
  PROVE  OwnInv'
<1>1. draft[d].last = c
  BY DEF OwnInv, ActiveCommandOwnsDraft
<1>2. KeepsIdentity
  BY EndsKeepsIdentity DEF Active
<1>3. \A x \in Commands \ {c} : cmd'[x] = cmd[x] /\ (cmd[x].status \in Active => cmd[x].draft # d)
  BY <1>1 DEF Ends, OwnInv, ActiveCommandOwnsDraft
<1>4. \A x \in Commands : cmd[x].status # "none" => cmd[x].draft \in Drafts
  BY DEF RowInv, RowsOK
<1>5. ActiveCommandOwnsDraft'
  <2> SUFFICES ASSUME NEW x \in Commands, cmd'[x].status \in Active
               PROVE  /\ draft'[cmd'[x].draft].last = x
                      /\ draft'[cmd'[x].draft].status =
                           IF cmd'[x].type = "send" /\ cmd'[x].status = "recovery_required"
                           THEN "recovery_required" ELSE StatusFor(cmd'[x].type)
    BY DEF ActiveCommandOwnsDraft
  <2>1. CASE x = c
    BY <2>1 DEF Ends, Active
  <2>2. CASE x # c
    <3>1. cmd'[x] = cmd[x] /\ cmd[x].draft # d /\ cmd[x].draft \in Drafts
      BY <1>3, <1>4, <2>2 DEF Active
    <3> QED BY <3>1 DEF OwnInv, ActiveCommandOwnsDraft
  <2> QED BY <2>1, <2>2
<1>6. CommandsHaveDrafts' /\ RevisionsBounded'
  BY <1>2, <1>4 DEF KeepsIdentity, OwnInv, CommandsHaveDrafts, RevisionsBounded
<1>7. SendsBlockDraft'
  <2> SUFFICES ASSUME NEW x \in Commands, cmd'[x].status # "none", cmd'[x].type = "send"
               PROVE  draft'[cmd'[x].draft].status
                        \in {"sending", "sent", "conflict", "recovery_required"}
    BY DEF SendsBlockDraft
  <2>1. cmd[x].status # "none" /\ cmd[x].type = "send" /\ cmd'[x].draft = cmd[x].draft
    BY <1>2 DEF KeepsIdentity
  <2>2. CASE cmd[x].draft = d
    <3>1. draft[d].status \in {"sending", "sent", "conflict", "recovery_required"}
      BY <2>1, <2>2 DEF OwnInv, SendsBlockDraft
    <3>2. cmd[c].type \in Types
      BY DEF RowInv, RowsOK, Active
    <3>3. cmd[c].type = "send"
      BY <3>1, <3>2 DEF OwnInv, ActiveCommandOwnsDraft, StatusFor, Types
    <3> QED BY <2>1, <2>2, <3>3
  <2>3. CASE cmd[x].draft # d
    BY <1>4, <2>1, <2>3 DEF OwnInv, SendsBlockDraft
  <2> QED BY <2>2, <2>3
<1>8. NoDuplicateMutation'
  BY <1>2, IdentityKeepsDistinct DEF OwnInv
<1> QED BY <1>5, <1>6, <1>7, <1>8 DEF OwnInv

\* What a request writes: a pending command c of draft d, the last one of d, in a
\* revision that no other command of this type has.
LEMMA RequestStep ==
  ASSUME RowInv, OwnInv, NEW d \in Drafts, NEW c \in Commands, NEW type \in Types,
         cmd[c].status = "none",
         cmd'[c].status = "pending", cmd'[c].type = type, cmd'[c].draft = d,
         \A x \in Commands \ {c} : cmd'[x] = cmd[x],
         \A x \in Commands : cmd[x].status # "none" /\ cmd[x].draft = d =>
           /\ cmd[x].status \notin Active
           /\ cmd[x].type # "send"
           /\ type = "create" => FALSE
           /\ type = "update" => cmd[x].revision < cmd'[c].revision
           /\ cmd[x].revision <= draft'[d].revision,
         draft'[d].last = c, draft'[d].status = StatusFor(type),
         cmd'[c].revision <= draft'[d].revision,
         \A e \in Drafts \ {d} : draft'[e] = draft[e]
  PROVE  OwnInv'
<1>1. \A x \in Commands : cmd[x].status # "none" => cmd[x].draft \in Drafts /\ cmd[x].revision \in Nat
  BY DEF RowInv, TypeOK, CommandRow, RowsOK
<1>2. draft'[d].status \in {"creating", "updating", "sending"}
      /\ (type = "send" => draft'[d].status = "sending")
  BY DEF StatusFor, Types
<1>3. ActiveCommandOwnsDraft'
  <2> SUFFICES ASSUME NEW x \in Commands, cmd'[x].status \in Active
               PROVE  /\ draft'[cmd'[x].draft].last = x
                      /\ draft'[cmd'[x].draft].status =
                           IF cmd'[x].type = "send" /\ cmd'[x].status = "recovery_required"
                           THEN "recovery_required" ELSE StatusFor(cmd'[x].type)
    BY DEF ActiveCommandOwnsDraft
  <2>1. CASE x = c
    BY <2>1
  <2>2. CASE x # c
    BY <1>1, <2>2 DEF OwnInv, ActiveCommandOwnsDraft, Active
  <2> QED BY <2>1, <2>2
<1>4. CommandsHaveDrafts'
  BY <1>1, <1>2 DEF OwnInv, CommandsHaveDrafts
<1>5. SendsBlockDraft'
  BY <1>1, <1>2 DEF OwnInv, SendsBlockDraft
<1>6. RevisionsBounded'
  <2> SUFFICES ASSUME NEW x \in Commands, cmd'[x].status # "none"
               PROVE  cmd'[x].revision <= draft'[cmd'[x].draft].revision
    BY DEF RevisionsBounded
  <2>1. CASE x = c
    BY <2>1
  <2>2. CASE x # c
    BY <1>1, <2>2 DEF OwnInv, RevisionsBounded
  <2> QED BY <2>1, <2>2
<1>7. NoDuplicateMutation'
  <2>1. \A x \in Commands \ {c} :
          ~ /\ cmd[x].status # "none" /\ cmd[x].draft = d /\ cmd[x].type = type
            /\ type = "update" => cmd[x].revision = cmd'[c].revision
    BY <1>1 DEF Types, RowInv, TypeOK, CommandRow
  <2> QED BY <2>1 DEF OwnInv, NoDuplicateMutation
<1> QED BY <1>3, <1>4, <1>5, <1>6, <1>7 DEF OwnInv

\* A new draft has no commands yet.
LEMMA CreateKeepsOwnInv ==
  ASSUME RowInv, OwnInv, NEW d \in Drafts, NEW c \in Commands, CreateDraft(d, c)
  PROVE  OwnInv'
<1>1. cmd[c].status = "none" /\ \A x \in Commands : cmd[x].status # "none" => cmd[x].draft # d
  BY DEF CreateDraft, NewKey, OwnInv, CommandsHaveDrafts
<1>2. /\ cmd'[c] = PendingCommand("create", d, 1)
      /\ \A x \in Commands \ {c} : cmd'[x] = cmd[x]
      /\ draft'[d].last = c /\ draft'[d].status = "creating" /\ draft'[d].revision = 1
      /\ \A e \in Drafts \ {d} : draft'[e] = draft[e]
  BY DEF CreateDraft, RowInv, TypeOK
<1>3. /\ cmd'[c].status = "pending" /\ cmd'[c].type = "create" /\ cmd'[c].draft = d
      /\ cmd'[c].revision = 1
  BY <1>2 DEF PendingCommand
<1>4. "create" \in Types /\ StatusFor("create") = "creating" /\ 1 <= 1
  BY DEF Types, StatusFor
<1> QED BY <1>1, <1>2, <1>3, <1>4, RequestStep

\* A ready draft has no active command and no send, and an update takes a new revision.
LEMMA UpdateKeepsOwnInv ==
  ASSUME RowInv, OwnInv, NEW d \in Drafts, NEW c \in Commands, UpdateDraft(d, c)
  PROVE  OwnInv'
<1> DEFINE r == draft[d].revision
<1>1. /\ draft[d] \in DraftRow /\ r \in Nat
      /\ \A x \in Commands : cmd[x].revision \in Nat
  BY DEF RowInv, TypeOK, DraftRow, CommandRow
<1>2. /\ cmd[c].status = "none"
      /\ \A x \in Commands : cmd[x].status # "none" /\ cmd[x].draft = d =>
           cmd[x].status \notin Active /\ cmd[x].type # "send" /\ cmd[x].revision <= r
  BY DEF UpdateDraft, NewKey, HasActiveCommand, OwnInv, SendsBlockDraft, RevisionsBounded
<1>3. /\ cmd'[c] = PendingCommand("update", d, r + 1)
      /\ \A x \in Commands \ {c} : cmd'[x] = cmd[x]
      /\ \A e \in Drafts \ {d} : draft'[e] = draft[e]
  BY DEF UpdateDraft, RowInv, TypeOK
<1>4. draft'[d].last = c /\ draft'[d].status = "updating" /\ draft'[d].revision = r + 1
  BY <1>1 DEF UpdateDraft, RowInv, TypeOK, DraftRow
<1>5. /\ cmd'[c].status = "pending" /\ cmd'[c].type = "update" /\ cmd'[c].draft = d
      /\ cmd'[c].revision = r + 1
  BY <1>3 DEF PendingCommand
<1>6. "update" \in Types /\ StatusFor("update") = "updating"
  BY DEF Types, StatusFor
<1>7. \A x \in Commands : cmd[x].status # "none" /\ cmd[x].draft = d =>
        cmd[x].revision < r + 1 /\ cmd[x].revision <= r + 1
  BY <1>1, <1>2
<1> QED BY <1>1, <1>2, <1>3, <1>4, <1>5, <1>6, <1>7, RequestStep

\* A ready draft has no active command and no send: this send is the only one.
LEMMA SendKeepsOwnInv ==
  ASSUME RowInv, OwnInv, NEW d \in Drafts, NEW c \in Commands, SendDraft(d, c)
  PROVE  OwnInv'
<1> DEFINE r == draft[d].revision
<1>1. draft[d] \in DraftRow /\ r \in Nat
  BY DEF RowInv, TypeOK, DraftRow
<1>2. /\ cmd[c].status = "none"
      /\ \A x \in Commands : cmd[x].status # "none" /\ cmd[x].draft = d =>
           cmd[x].status \notin Active /\ cmd[x].type # "send" /\ cmd[x].revision <= r
  BY DEF SendDraft, NewKey, HasActiveCommand, OwnInv, SendsBlockDraft, RevisionsBounded
<1>3. /\ cmd'[c] = PendingCommand("send", d, r)
      /\ \A x \in Commands \ {c} : cmd'[x] = cmd[x]
      /\ \A e \in Drafts \ {d} : draft'[e] = draft[e]
  BY DEF SendDraft, RowInv, TypeOK
<1>4. draft'[d].last = c /\ draft'[d].status = "sending" /\ draft'[d].revision = r
  BY <1>1 DEF SendDraft, RowInv, TypeOK, DraftRow
<1>5. /\ cmd'[c].status = "pending" /\ cmd'[c].type = "send" /\ cmd'[c].draft = d
      /\ cmd'[c].revision = r
  BY <1>3 DEF PendingCommand
<1>6. "send" \in Types /\ StatusFor("send") = "sending" /\ r <= r
  BY <1>1 DEF Types, StatusFor
<1> QED BY <1>1, <1>2, <1>3, <1>4, <1>5, <1>6, RequestStep

\* An active command is in the status of its type: the guards of a settlement say
\* which commands it can be for.
LEMMA ExecutingOwns ==
  ASSUME RowInv, OwnInv, NEW w \in Workers, work[w].pc # "idle", Executing(w)
  PROVE  LET c == work[w].cmd
             d == cmd[c].draft
         IN /\ c \in Commands /\ d \in Drafts /\ cmd[c].type \in Types
            /\ cmd[c].status = "running" /\ cmd[c].status \in Active
            /\ draft[d] \in DraftRow
            /\ draft[d].last = c
            /\ draft[d].status = StatusFor(cmd[c].type)
<1> DEFINE c == work[w].cmd
<1>1. c \in Commands /\ cmd[c].draft \in Drafts /\ cmd[c].type \in Types
  BY DEF RowInv, RowsOK
<1>2. cmd[c].status = "running" /\ cmd[c].status \in Active
  BY DEF Executing, HoldsClaim, Active
<1>3. draft[cmd[c].draft] \in DraftRow
  BY <1>1 DEF RowInv, TypeOK
<1> QED BY <1>1, <1>2, <1>3 DEF OwnInv, ActiveCommandOwnsDraft

\* Writing only the status of draft d.
LEMMA StatusWrite ==
  ASSUME TypeOK, NEW d \in Drafts, NEW status, draft' = [draft EXCEPT ![d].status = status]
  PROVE  /\ draft'[d].status = status
         /\ draft'[d].last = draft[d].last
         /\ draft'[d].revision = draft[d].revision
         /\ \A e \in Drafts \ {d} : draft'[e] = draft[e]
BY DEF TypeOK, DraftRow

\* Ending a command without touching its draft: it is failed, retried, or, for a
\* create or an update, left uncertain.
LEMMA PlainEnd ==
  ASSUME RowInv, OwnInv, NEW c \in Commands, cmd[c].status = "running",
         NEW status \in {"failed", "retryable", "recovery_required"}, Ends(c, status),
         status = "recovery_required" => cmd[c].type # "send", draft' = draft
  PROVE  OwnInv'
<1>1. KeepsIdentity
  BY EndsKeepsIdentity
<1>2. \A x \in Commands : cmd'[x].status \in Active =>
        cmd[x].status \in Active /\ (Uncertain(cmd'[x]) <=> Uncertain(cmd[x]))
  BY DEF Ends, Active, Uncertain
<1> QED BY <1>1, <1>2, QuietStep

\* Requiring recovery surfaces an uncertain send on its draft.
LEMMA RecoveryKeepsOwnInv ==
  ASSUME RowInv, OwnInv, NEW w \in Workers, work[w].pc # "idle", Executing(w),
         RequireRecovery(work[w].cmd)
  PROVE  OwnInv'
<1> DEFINE c == work[w].cmd
<1> DEFINE d == cmd[c].draft
<1>1. c \in Commands /\ d \in Drafts /\ cmd[c].status = "running" /\ cmd[c].status \in Active
      /\ draft[d].last = c /\ TypeOK
  BY ExecutingOwns DEF RowInv
<1>2. Ends(c, "recovery_required")
  BY <1>1, RequireRecoveryEnds
<1>3. CASE cmd[c].type = "send"
  <2>1. draft' = [draft EXCEPT ![d].status = "recovery_required"]
    BY <1>3 DEF RequireRecovery
  <2>2. /\ draft'[d].status = "recovery_required" /\ draft'[d].last = c
        /\ draft'[d].revision = draft[d].revision
        /\ \A e \in Drafts \ {d} : draft'[e] = draft[e]
    BY <1>1, <2>1, StatusWrite
  <2> QED BY <1>1, <1>2, <1>3, <2>2, OwnerSettles
<1>4. CASE cmd[c].type # "send"
  <2>1. draft' = draft
    BY <1>4 DEF RequireRecovery
  <2> QED BY <1>1, <1>2, <1>4, <2>1, PlainEnd
<1> QED BY <1>3, <1>4

\* The catch block before the marker: a plain end, or a required recovery.
LEMMA CatchKeepsOwnInv ==
  ASSUME RowInv, OwnInv, NEW w \in Workers, CatchBeforeMarker(w)
  PROVE  OwnInv'
<1> DEFINE c == work[w].cmd
<1>1. work[w].pc # "idle" /\ Executing(w)
  BY DEF CatchBeforeMarker
<1>2. c \in Commands /\ cmd[c].draft \in Drafts /\ cmd[c].status = "running" /\ TypeOK
  BY <1>1, ExecutingOwns DEF RowInv
<1>3. \/ ScheduleRetry(c)
      \/ RequireRecovery(c)
      \/ UNCHANGED draft /\ Settle(c, "failed")
      \/ UNCHANGED draft /\ Settle(c, "recovery_required") /\ cmd[c].type # "send"
  BY DEF CatchBeforeMarker, ErrorsAt, ErrorClasses
<1>4. CASE ScheduleRetry(c)
  BY <1>2, <1>4, ScheduleRetryEnds, PlainEnd
<1>5. CASE RequireRecovery(c)
  BY <1>1, <1>5, RecoveryKeepsOwnInv
<1>6. CASE UNCHANGED draft /\ Settle(c, "failed")
  BY <1>2, <1>6, SettleEnds, PlainEnd
<1>7. CASE UNCHANGED draft /\ Settle(c, "recovery_required") /\ cmd[c].type # "send"
  BY <1>2, <1>7, SettleEnds, PlainEnd
<1> QED BY <1>3, <1>4, <1>5, <1>6, <1>7

\* A conflict settles the owner of the draft.
LEMMA ConflictKeepsOwnInv ==
  ASSUME RowInv, OwnInv, NEW w \in Workers, CompleteConflict(w)
  PROVE  OwnInv'
<1> DEFINE c == work[w].cmd
<1> DEFINE d == cmd[c].draft
<1>1. c \in Commands /\ d \in Drafts /\ cmd[c].status \in Active /\ draft[d].last = c /\ TypeOK
  BY ExecutingOwns DEF CompleteConflict, RowInv
<1>2. Ends(c, "failed")
  BY <1>1, SettleEnds DEF CompleteConflict
<1>3. /\ draft'[d].status = "conflict" /\ draft'[d].last = c
      /\ draft'[d].revision = draft[d].revision
      /\ \A e \in Drafts \ {d} : draft'[e] = draft[e]
  BY <1>1, StatusWrite DEF CompleteConflict
<1> QED BY <1>1, <1>2, <1>3, OwnerSettles

\* A confirmation settles the owner of the draft, as ready or sent.
LEMMA SucceedKeepsOwnInv ==
  ASSUME RowInv, OwnInv, NEW c \in Commands, cmd[c].status \in Active,
         NEW version \in Nat, Succeed(c, version)
  PROVE  OwnInv'
<1> DEFINE d == cmd[c].draft
<1> DEFINE row == draft[d]
<1>1. d \in Drafts /\ draft[d].last = c /\ TypeOK
  BY DEF RowInv, RowsOK, Active, OwnInv, ActiveCommandOwnsDraft
<1>2. Ends(c, "succeeded")
  BY <1>1, SucceedEnds
<1>3. /\ draft'[d] = ConfirmedDraft(c, version)
      /\ \A e \in Drafts \ {d} : draft'[e] = draft[e]
  BY <1>1 DEF Succeed, TypeOK
<1>4. row \in DraftRow
  BY <1>1 DEF TypeOK
<1>5. LET new == [row EXCEPT !.status = "sent", !.provider = 0]
      IN  new.status = "sent" /\ new.last = row.last /\ new.revision = row.revision
  BY <1>4 DEF DraftRow
<1>6. LET new == [row EXCEPT !.status = "ready", !.confirmed = row.revision, !.provider = version]
      IN  new.status = "ready" /\ new.last = row.last /\ new.revision = row.revision
  BY <1>4 DEF DraftRow
<1>7. /\ draft'[d].last = c /\ draft'[d].revision = draft[d].revision
      /\ draft'[d].status \in {"ready", "sent"}
      /\ draft'[d].status = "ready" => cmd[c].type # "send"
  BY <1>1, <1>3, <1>5, <1>6 DEF ConfirmedDraft
<1> QED BY <1>1, <1>2, <1>3, <1>7, OwnerSettles

\* Lease recovery writes the draft of an uncertain send, and only that: its last
\* command is the expired one.
LEMMA LeaseRecoveryKeepsOwnInv ==
  ASSUME RowInv, OwnInv, RecoverExpiredLeases
  PROVE  OwnInv'
<1> DEFINE surfaced(d) == /\ draft[d].status = "sending"
                          /\ \E c \in ExpiredCommands :
                               UncertainSend(c) /\ cmd[c].draft = d /\ draft[d].last = c
<1>1. \A d \in Drafts :
        /\ draft'[d].last = draft[d].last /\ draft'[d].revision = draft[d].revision
        /\ surfaced(d) => draft[d].status = "sending" /\ draft'[d].status = "recovery_required"
        /\ ~surfaced(d) => draft'[d] = draft[d]
  <2> SUFFICES ASSUME NEW d \in Drafts
               PROVE  /\ draft'[d].last = draft[d].last /\ draft'[d].revision = draft[d].revision
                      /\ surfaced(d) => /\ draft[d].status = "sending"
                                        /\ draft'[d].status = "recovery_required"
                      /\ ~surfaced(d) => draft'[d] = draft[d]
    OBVIOUS
  <2>1. draft[d] \in DraftRow
    BY DEF RowInv, TypeOK
  <2>2. draft'[d] = IF surfaced(d) THEN [draft[d] EXCEPT !.status = "recovery_required"] ELSE draft[d]
    BY DEF RecoverExpiredLeases
  <2> QED BY <2>1, <2>2 DEF DraftRow
<1>2. \A c \in Commands :
        /\ cmd'[c].type = cmd[c].type /\ cmd'[c].draft = cmd[c].draft
        /\ cmd'[c].revision = cmd[c].revision
        /\ \/ c \notin ExpiredCommands /\ cmd'[c] = cmd[c]
           \/ /\ c \in ExpiredCommands /\ cmd[c].status = "running"
              /\ cmd'[c].status = RecoveredStatus(c)
              /\ cmd'[c].status \in {"retryable", "recovery_required"}
  BY RecoveredRow DEF RowInv
<1>3. KeepsIdentity
  BY <1>2 DEF KeepsIdentity
<1>4. \A c \in Commands : cmd[c].status # "none" => cmd[c].draft \in Drafts /\ cmd[c].type \in Types
  BY DEF RowInv, RowsOK
<1>5. ActiveCommandOwnsDraft'
  <2> SUFFICES ASSUME NEW c \in Commands, cmd'[c].status \in Active
               PROVE  /\ draft'[cmd'[c].draft].last = c
                      /\ draft'[cmd'[c].draft].status =
                           IF cmd'[c].type = "send" /\ cmd'[c].status = "recovery_required"
                           THEN "recovery_required" ELSE StatusFor(cmd'[c].type)
    BY DEF ActiveCommandOwnsDraft
  <2> DEFINE d == cmd[c].draft
  <2>1. cmd[c].status \in Active
    BY <1>2 DEF Active
  <2>2. d \in Drafts /\ cmd'[c].draft = d /\ cmd'[c].type = cmd[c].type /\ cmd[c].type \in Types
    BY <1>2, <1>4, <2>1 DEF Active
  <2>3. draft[d].last = c
        /\ draft[d].status = IF cmd[c].type = "send" /\ cmd[c].status = "recovery_required"
                             THEN "recovery_required" ELSE StatusFor(cmd[c].type)
    BY <2>1 DEF OwnInv, ActiveCommandOwnsDraft
  <2>4. surfaced(d) <=> draft[d].status = "sending" /\ c \in ExpiredCommands /\ UncertainSend(c)
    BY <2>3 DEF ExpiredCommands
  <2>5. CASE c \notin ExpiredCommands
    BY <1>1, <1>2, <2>2, <2>3, <2>4, <2>5
  <2>6. CASE c \in ExpiredCommands /\ UncertainSend(c)
    <3>1. draft[d].status = "sending" /\ cmd'[c].status = "recovery_required"
      BY <1>2, <2>3, <2>6 DEF UncertainSend, RecoveredStatus, StatusFor
    <3> QED BY <1>1, <2>2, <2>3, <2>4, <2>6, <3>1 DEF UncertainSend
  <2>7. CASE c \in ExpiredCommands /\ ~UncertainSend(c)
    <3>1. draft'[d] = draft[d] /\ cmd[c].status = "running"
      BY <1>1, <1>2, <2>2, <2>4, <2>7
    <3>2. cmd'[c].status = "retryable" \/ cmd[c].type # "send"
      BY <1>2, <2>7 DEF UncertainSend, RecoveredStatus
    <3> QED BY <2>2, <2>3, <3>1, <3>2
  <2> QED BY <2>5, <2>6, <2>7
<1>6. CommandsHaveDrafts' /\ RevisionsBounded'
  BY <1>1, <1>3, <1>4 DEF KeepsIdentity, OwnInv, CommandsHaveDrafts, RevisionsBounded
<1>7. SendsBlockDraft'
  BY <1>1, <1>3, <1>4 DEF KeepsIdentity, OwnInv, SendsBlockDraft
<1>8. NoDuplicateMutation'
  BY <1>3, IdentityKeepsDistinct DEF OwnInv
<1> QED BY <1>5, <1>6, <1>7, <1>8 DEF OwnInv

\* The repair scan never touches the draft of an active command.
LEMMA RepairKeepsOwnInv ==
  ASSUME RowInv, OwnInv, RepairInconsistentDraftStates
  PROVE  OwnInv'
<1>1. PICK S \in SUBSET {d \in Drafts : Inconsistent(d)} :
        draft' = [d \in Drafts |-> IF d \in S THEN [draft[d] EXCEPT !.status = "recovery_required"]
                                   ELSE draft[d]]
  BY DEF RepairInconsistentDraftStates
<1>2. \A d \in Drafts :
        /\ draft'[d].last = draft[d].last /\ draft'[d].revision = draft[d].revision
        /\ d \in S => draft'[d].status = "recovery_required"
        /\ d \notin S => draft'[d] = draft[d]
  <2> SUFFICES ASSUME NEW d \in Drafts
               PROVE  /\ draft'[d].last = draft[d].last /\ draft'[d].revision = draft[d].revision
                      /\ d \in S => draft'[d].status = "recovery_required"
                      /\ d \notin S => draft'[d] = draft[d]
    OBVIOUS
  <2>1. draft[d] \in DraftRow
    BY DEF RowInv, TypeOK
  <2>2. draft'[d] = IF d \in S THEN [draft[d] EXCEPT !.status = "recovery_required"] ELSE draft[d]
    BY <1>1
  <2> QED BY <2>1, <2>2 DEF DraftRow
<1>3. cmd' = cmd
  BY DEF RepairInconsistentDraftStates
<1>4. \A c \in Commands : cmd[c].status # "none" => cmd[c].draft \in Drafts
  BY DEF RowInv, RowsOK
<1>5. \A c \in Commands : cmd[c].status \in Active => cmd[c].draft \notin S
  <2> SUFFICES ASSUME NEW c \in Commands, cmd[c].status \in Active, Inconsistent(cmd[c].draft)
               PROVE  FALSE
    BY <1>1
  <2>1. draft[cmd[c].draft].last = c
        /\ (draft[cmd[c].draft].status = "recovery_required"
            \/ draft[cmd[c].draft].status = StatusFor(cmd[c].type))
    BY DEF OwnInv, ActiveCommandOwnsDraft
  <2> QED BY <2>1 DEF Inconsistent, InProgress
<1>6. ActiveCommandOwnsDraft'
  <2> SUFFICES ASSUME NEW c \in Commands, cmd[c].status \in Active
               PROVE  draft'[cmd[c].draft] = draft[cmd[c].draft]
    BY <1>3 DEF OwnInv, ActiveCommandOwnsDraft
  <2> QED BY <1>2, <1>4, <1>5 DEF Active
<1>7. CommandsHaveDrafts' /\ SendsBlockDraft' /\ RevisionsBounded'
  BY <1>2, <1>3, <1>4 DEF OwnInv, CommandsHaveDrafts, SendsBlockDraft, RevisionsBounded
<1>8. NoDuplicateMutation'
  BY <1>3 DEF OwnInv, NoDuplicateMutation
<1> QED BY <1>6, <1>7, <1>8 DEF OwnInv

\* The steps that leave the drafts alone and neither start nor settle a command.
LEMMA StatusKept ==
  ASSUME RowInv, OwnInv, draft' = draft,
         \A c \in Commands : /\ cmd'[c].type = cmd[c].type
                             /\ cmd'[c].draft = cmd[c].draft
                             /\ cmd'[c].revision = cmd[c].revision
                             /\ \/ cmd'[c].status = cmd[c].status
                                \/ /\ cmd'[c].status = "running"
                                   /\ cmd[c].status \in {"pending", "retryable"}
  PROVE  OwnInv'
<1>1. KeepsIdentity
  BY DEF KeepsIdentity
<1>2. \A c \in Commands : cmd'[c].status \in Active =>
        cmd[c].status \in Active /\ (Uncertain(cmd'[c]) <=> Uncertain(cmd[c]))
  BY DEF Active, Uncertain
<1> QED BY <1>1, <1>2, QuietStep

\* The ownership invariant is inductive relative to the row invariant.
LEMMA OwnInvNext == RowInv /\ OwnInv /\ [Next]_vars => OwnInv'
<1> SUFFICES ASSUME RowInv, OwnInv, [Next]_vars PROVE OwnInv'
  OBVIOUS
<1>0. cmd \in [Commands -> CommandRow]
  BY DEF RowInv, TypeOK
<1>1. CASE UNCHANGED <<draft, cmd>>
  BY <1>1, StatusKept
<1>2. CASE UNCHANGED vars \/ Gmail
  BY <1>1, <1>2 DEF vars, Gmail, GmailAccepts, GmailRefuses, GmailUserEdits, GmailUserDeletes,
                    GmailUserSends
<1>3. CASE UserRequests
  BY <1>3, CreateKeepsOwnInv, UpdateKeepsOwnInv, SendKeepsOwnInv DEF UserRequests
<1>4. ASSUME NEW w \in Workers, NEW c \in Commands, ClaimCommand(w, c) PROVE OwnInv'
  BY <1>0, <1>4, StatusKept DEF ClaimCommand, CommandRow
<1>5. ASSUME NEW w \in Workers, NEW c \in Commands, ClaimRecovery(w, c) PROVE OwnInv'
  BY <1>0, <1>5, StatusKept DEF ClaimRecovery, CommandRow
<1>6. ASSUME NEW w \in Workers,
             LoadDraft(w) \/ PreflightGetDraft(w) \/ CallProvider(w) \/ SearchByMessageId(w)
             \/ Abandon(w)
      PROVE  OwnInv'
  BY <1>1, <1>6 DEF LoadDraft, PreflightGetDraft, CallProvider, SearchByMessageId, Abandon
<1>7. ASSUME NEW w \in Workers, MarkProviderExecutionStarted(w) PROVE OwnInv'
  <2>1. work[w].cmd \in Commands
    BY <1>7 DEF RowInv, RowsOK, MarkProviderExecutionStarted
  <2> QED BY <1>0, <1>7, <2>1, StatusKept DEF MarkProviderExecutionStarted, CommandRow
<1>8. ASSUME NEW w \in Workers, ReleaseRecoveryClaim(w) PROVE OwnInv'
  BY <1>0, <1>8, StatusKept DEF ReleaseRecoveryClaim, CommandRow
<1>9. ASSUME NEW w \in Workers, CompleteConflict(w) \/ CatchBeforeMarker(w) PROVE OwnInv'
  BY <1>9, ConflictKeepsOwnInv, CatchKeepsOwnInv
<1>10. ASSUME NEW w \in Workers, CatchAfterMarker(w) PROVE OwnInv'
  BY <1>10, RecoveryKeepsOwnInv DEF CatchAfterMarker
<1>11. ASSUME NEW w \in Workers, CompleteConfirmed(w) PROVE OwnInv'
  <2>1. work[w].cmd \in Commands /\ cmd[work[w].cmd].status \in Active
    BY <1>11, ExecutingOwns DEF CompleteConfirmed
  <2>2. request[work[w].cmd].version \in Nat
    BY <2>1 DEF RowInv, TypeOK
  <2> QED BY <1>11, <2>1, <2>2, SucceedKeepsOwnInv DEF CompleteConfirmed
<1>12. ASSUME NEW w \in Workers, CompleteRecovered(w) PROVE OwnInv'
  <2>1. work[w].cmd \in Commands /\ cmd[work[w].cmd].status \in Active
    BY <1>12 DEF RowInv, RowsOK, CompleteRecovered, HoldsClaim, Active
  <2>2. work[w].version \in Nat
    BY DEF RowInv, TypeOK, Job
  <2> QED BY <1>12, <2>1, <2>2, SucceedKeepsOwnInv DEF CompleteRecovered
<1>13. ASSUME NEW c \in Commands, LeaseExpires(c) \/ BackoffElapses(c) PROVE OwnInv'
  BY <1>0, <1>13, StatusKept DEF LeaseExpires, BackoffElapses, CommandRow
<1>14. CASE Maintenance
  BY <1>14, LeaseRecoveryKeepsOwnInv, RepairKeepsOwnInv DEF Maintenance
<1> QED BY <1>2, <1>3, <1>4, <1>5, <1>6, <1>7, <1>8, <1>9, <1>10, <1>11, <1>12, <1>13, <1>14
        DEF Next, WorkerStep, ExecutionStep, VerificationStep, Passage

\* Both invariants hold together.
LEMMA Ownership == Spec => [](RowInv /\ OwnInv)
<1>1. Init => RowInv /\ OwnInv
  BY RowInvInit, OwnInvInit
<1>2. (RowInv /\ OwnInv) /\ [Next]_vars => (RowInv /\ OwnInv)'
  BY RowInvNext, OwnInvNext
<1> QED BY <1>1, <1>2, PTL DEF Spec

\* An unsettled command is the last one of its draft, which shows it: at most one
\* command of a draft is ever active, and every uncertain send can be verified.
THEOREM OneOwner == Spec => []ActiveCommandOwnsDraft
<1>1. RowInv /\ OwnInv => ActiveCommandOwnsDraft
  BY DEF OwnInv
<1> QED BY <1>1, Ownership, PTL

\* A draft is created once and sent by at most one command, and a revision has one
\* update, however many keys clients use.
THEOREM DistinctMutations == Spec => []NoDuplicateMutation
<1>1. RowInv /\ OwnInv => NoDuplicateMutation
  BY DEF OwnInv
<1> QED BY <1>1, Ownership, PTL

------------------------------------------------------------------------------
(* The pipeline.  Outbox and queue take over the steps of the draft commands     *)
(* whole, so that what holds of the commands holds behind the queue; and an       *)
(* event is published only when the queue holds a job that nothing consumes        *)
(* before the command is claimed.                                                *)

\* A step of the pipeline is a step of the draft commands, or leaves them alone.
LEMMA PipelineStep == [PipelineNext]_pipelineVars => [Next]_vars
BY DEF PipelineNext, pipelineVars, transport, RequestMutation, Dispatch, ClaimOutboxEvents,
       EnqueueProviderCommand, MarkOutboxPublished, ReleaseOutboxClaim, DispatcherCrashes,
       DispatchLeaseExpires, RequestSendVerification, ReplayQueue, TakeJob, TakeExecuteJob,
       ExecuteNotClaimed, TakeVerifyJob, VerifyNotClaimed, RunJob, WorkerCrashes, Queue, JobStalls,
       EvictJob, RedisLosesJobs, Background, Next, WorkerStep, Abandon

\* The draft commands behind outbox and queue implement the draft commands: each theorem
\* about Spec holds of the pipeline.
THEOREM PipelineImplementsCommands == PipelineSpec => Spec
<1>1. PipelineInit => Init
  BY DEF PipelineInit
<1> QED
  BY <1>1, PipelineStep, PTL DEF PipelineSpec, Spec

\* Not executed yet.
Unstarted == {"none", "pending"}

\* A command that waits for its first execution is due, and no slot works on it.
FirstInv ==
  /\ \A c \in Commands : cmd[c].status = "pending" => cmd[c].due
  /\ \A w \in Workers : work[w].pc # "idle" => cmd[work[w].cmd].status \notin Unstarted

\* Only a request makes a command pending, and it is due then.
FirstStep(c) ==
  cmd'[c].status \in Unstarted =>
    \/ cmd'[c].status = cmd[c].status /\ cmd'[c].due = cmd[c].due
    \/ cmd[c].status = "none" /\ cmd'[c].status = "pending" /\ cmd'[c].due

\* Every step of the draft commands is one.
LEMMA FirstStepNext ==
  ASSUME RowInv, [Next]_vars, NEW c \in Commands
  PROVE  FirstStep(c)
<1>0. /\ cmd \in [Commands -> CommandRow]
      /\ \A w \in Workers : work[w].pc # "idle" =>
           work[w].cmd \in Commands /\ cmd[work[w].cmd].draft \in Drafts
      /\ TypeOK
  BY DEF RowInv, RowsOK, TypeOK
<1>1. CASE cmd'[c] = cmd[c]
  BY <1>1 DEF FirstStep
<1>2. CASE UNCHANGED vars \/ Gmail \/ RepairInconsistentDraftStates
  BY <1>1, <1>2 DEF vars, Gmail, GmailAccepts, GmailRefuses, GmailUserEdits, GmailUserDeletes,
     GmailUserSends, RepairInconsistentDraftStates
<1>3. ASSUME NEW d \in Drafts, NEW x \in Commands,
             CreateDraft(d, x) \/ UpdateDraft(d, x) \/ SendDraft(d, x)
      PROVE  FirstStep(c)
  <2>1. x # c => cmd'[c] = cmd[c]
    BY <1>0, <1>3 DEF CreateDraft, UpdateDraft, SendDraft
  <2>2. cmd[x].status = "none" /\ cmd'[x].status = "pending" /\ cmd'[x].due
    BY <1>0, <1>3 DEF CreateDraft, UpdateDraft, SendDraft, NewKey, PendingCommand
  <2> QED BY <1>1, <2>1, <2>2 DEF FirstStep
<1>4. ASSUME NEW w \in Workers, NEW x \in Commands, ClaimCommand(w, x) \/ ClaimRecovery(w, x)
      PROVE  FirstStep(c)
  BY <1>0, <1>4 DEF ClaimCommand, ClaimRecovery, CommandRow, FirstStep, Unstarted
<1>5. ASSUME NEW w \in Workers,
             LoadDraft(w) \/ PreflightGetDraft(w) \/ CallProvider(w) \/ SearchByMessageId(w)
             \/ Abandon(w)
      PROVE  FirstStep(c)
  BY <1>1, <1>5 DEF LoadDraft, PreflightGetDraft, CallProvider, SearchByMessageId, Abandon
<1>6. ASSUME NEW w \in Workers, MarkProviderExecutionStarted(w) \/ ReleaseRecoveryClaim(w)
      PROVE  FirstStep(c)
  BY <1>0, <1>6 DEF MarkProviderExecutionStarted, ReleaseRecoveryClaim, CommandRow, FirstStep
<1>7. ASSUME NEW w \in Workers,
             \/ CompleteConflict(w) \/ CompleteConfirmed(w) \/ CompleteRecovered(w)
             \/ CatchBeforeMarker(w) \/ CatchAfterMarker(w)
      PROVE  FirstStep(c)
  <2>1. work[w].cmd \in Commands /\ cmd[work[w].cmd].draft \in Drafts
    BY <1>0, <1>7 DEF CompleteConflict, CompleteConfirmed, CompleteRecovered, CatchBeforeMarker,
       CatchAfterMarker
  <2>2. \E status \in {"succeeded", "failed", "retryable", "recovery_required"} :
          Ends(work[w].cmd, status)
    BY <1>0, <1>7, <2>1, SettleEnds, CatchBeforeMarkerEnds, RequireRecoveryEnds
       DEF CompleteConflict, CompleteConfirmed, CompleteRecovered, CatchAfterMarker, Succeed
  <2> QED BY <1>1, <2>1, <2>2 DEF FirstStep, Unstarted, Ends
<1>8. ASSUME NEW x \in Commands, LeaseExpires(x) \/ BackoffElapses(x) PROVE FirstStep(c)
  BY <1>0, <1>8 DEF LeaseExpires, BackoffElapses, CommandRow, FirstStep, Unstarted
<1>9. CASE RecoverExpiredLeases
  BY <1>0, <1>1, <1>9, RecoveredRow DEF FirstStep, Unstarted
<1> QED BY <1>2, <1>3, <1>4, <1>5, <1>6, <1>7, <1>8, <1>9
        DEF Next, UserRequests, WorkerStep, ExecutionStep, VerificationStep, Passage, Maintenance

\* A slot is busy with the command it was busy with, or with one it has just claimed.
LEMMA SlotStep ==
  ASSUME RowInv, [Next]_vars, NEW w \in Workers, work'[w].pc # "idle"
  PROVE  \/ work[w].pc # "idle" /\ work'[w].cmd = work[w].cmd
         \/ work'[w].cmd \in Commands /\ cmd'[work'[w].cmd].status \notin Unstarted
<1> DEFINE Kept == work[w].pc # "idle" /\ work'[w].cmd = work[w].cmd
           Taken == work'[w].cmd \in Commands /\ cmd'[work'[w].cmd].status \notin Unstarted
<1>0. TypeOK /\ cmd \in [Commands -> CommandRow] /\ work \in [Workers -> Job]
  BY DEF RowInv, TypeOK
<1>1. CASE work'[w] = work[w]
  BY <1>1
<1>2. CASE UNCHANGED work
  BY <1>1, <1>2
<1>3. ASSUME NEW v \in Workers, NEW x \in Commands, ClaimCommand(v, x) \/ ClaimRecovery(v, x)
      PROVE  Kept \/ Taken
  <2>1. v # w => work'[w] = work[w]
    BY <1>0, <1>3 DEF ClaimCommand, ClaimRecovery
  <2>2. work'[v].cmd = x /\ cmd'[x].status \notin Unstarted
    BY <1>0, <1>3 DEF ClaimCommand, ClaimRecovery, CommandRow, Unstarted
  <2> QED BY <1>1, <2>1, <2>2
<1>4. ASSUME NEW v \in Workers, work[v].pc # "idle", NEW pc, NEW version, SetWork(v, pc, version)
      PROVE  Kept
  BY <1>0, <1>1, <1>4 DEF SetWork, Job
<1>5. ASSUME NEW v \in Workers, Finish(v) PROVE Kept
  BY <1>0, <1>1, <1>5 DEF Finish, Idle
<1>6. ASSUME NEW v \in Workers, ExecutionStep(v) \/ VerificationStep(v) \/ Abandon(v)
      PROVE  Kept
  <2>1. Finish(v) \/ (work[v].pc # "idle" /\ \E pc, version : SetWork(v, pc, version))
    BY <1>6 DEF ExecutionStep, VerificationStep, LoadDraft, PreflightGetDraft, CompleteConflict,
       MarkProviderExecutionStarted, CallProvider, CompleteConfirmed, CatchBeforeMarker,
       CatchAfterMarker, SearchByMessageId, CompleteRecovered, ReleaseRecoveryClaim, Abandon
  <2> QED BY <1>4, <1>5, <2>1
<1>7. CASE UNCHANGED vars \/ UserRequests \/ Passage \/ Maintenance \/ Gmail
  BY <1>2, <1>7 DEF vars, UserRequests, CreateDraft, UpdateDraft, SendDraft, Passage, LeaseExpires,
     BackoffElapses, Maintenance, RecoverExpiredLeases, RepairInconsistentDraftStates, Gmail,
     GmailAccepts, GmailRefuses, GmailUserEdits, GmailUserDeletes, GmailUserSends
<1> QED BY <1>3, <1>6, <1>7 DEF Next, WorkerStep

\* A slot takes no command that waits, and one that waits stays due.
LEMMA FirstInvNext ==
  ASSUME RowInv, FirstInv, [Next]_vars
  PROVE  FirstInv'
<1>1. ASSUME NEW c \in Commands, cmd'[c].status = "pending" PROVE cmd'[c].due
  BY <1>1, FirstStepNext DEF FirstStep, FirstInv, Unstarted
<1>2. ASSUME NEW w \in Workers, work'[w].pc # "idle"
      PROVE  cmd'[work'[w].cmd].status \notin Unstarted
  <2>1. CASE work[w].pc # "idle" /\ work'[w].cmd = work[w].cmd
    <3>1. work[w].cmd \in Commands /\ cmd[work[w].cmd].status \notin Unstarted
      BY <2>1 DEF RowInv, RowsOK, FirstInv
    <3> QED BY <2>1, <3>1, FirstStepNext DEF FirstStep, Unstarted
  <2> QED BY <1>2, <2>1, SlotStep
<1> QED BY <1>1, <1>2 DEF FirstInv

\* Events, batches and jobs are typed.
TransportTyped ==
  /\ event \in [Commands -> [published : BOOLEAN, holder : Dispatchers \cup {NoDispatcher},
                             leased : BOOLEAN]]
  /\ batch \in [Dispatchers -> [claimed : SUBSET Commands, enqueued : SUBSET Commands]]
  /\ job \in [JobIds -> {"none", "waiting", "active", "finished"}]
  /\ lost \in BOOLEAN

\* The dispatchers have the event of c in hand; they have added its job.
Claimed(c) == \E p \in Dispatchers : c \in batch[p].claimed
Added(c) == event[c].published \/ \E p \in Dispatchers : c \in batch[p].enqueued

\* A key that no request has used has not been through the outbox, and from the request to the
\* first claim its job is either to come or waiting.
OutboxInv(c) ==
  /\ cmd[c].status = "none" => ~Claimed(c) /\ ~Added(c) /\ job[Execute(c)] = "none"
  /\ cmd[c].status = "pending" /\ ~lost =>
       /\ job[Execute(c)] \in {"none", "waiting"}
       /\ Added(c) => job[Execute(c)] = "waiting"

PipelineInv == RowInv /\ FirstInv /\ TransportTyped /\ \A c \in Commands : OutboxInv(c)

\* The empty outbox satisfies the invariant.
LEMMA PipelineInvInit == PipelineInit => PipelineInv
<1> SUFFICES ASSUME PipelineInit PROVE PipelineInv
  OBVIOUS
<1>1. RowInv /\ FirstInv
  BY RowInvInit DEF PipelineInit, Init, FirstInv, NoRow, Idle
<1>2. TransportTyped
  BY DEF PipelineInit, TransportTyped, NoBatch
<1>3. \A c \in Commands : OutboxInv(c)
  BY DEF PipelineInit, Init, NoRow, OutboxInv, Claimed, Added, NoBatch, JobIds, Execute
<1> QED BY <1>1, <1>2, <1>3 DEF PipelineInv

\* The jobs of a command are its own.
LEMMA JobsDiffer ==
  ASSUME NEW b \in Commands, NEW c \in Commands
  PROVE  /\ Execute(c) \in JobIds /\ Verify(c) \in JobIds
         /\ Execute(c) # Verify(b)
         /\ Execute(c) = Execute(b) => b = c
BY DEF Execute, Verify, JobIds

\* What adding jobs does to the job of a command.
LEMMA AddedJobs ==
  ASSUME TransportTyped, NEW S, AddJobs(S)
  PROVE  /\ job' \in [JobIds -> {"none", "waiting", "active", "finished"}]
         /\ \A j \in JobIds : /\ job[j] # "none" => job'[j] = job[j]
                              /\ job[j] = "none" /\ j \in S => job'[j] = "waiting"
                              /\ j \notin S => job'[j] = job[j]
BY DEF TransportTyped, AddJobs

\* The row of an event, and a dispatcher's batch.
Events == [published : BOOLEAN, holder : Dispatchers \cup {NoDispatcher}, leased : BOOLEAN]
Batches == [claimed : SUBSET Commands, enqueued : SUBSET Commands]

\* A dispatcher's batch changes.
LEMMA BatchMoves ==
  ASSUME TransportTyped, NEW p \in Dispatchers, NEW S \in SUBSET Commands, NEW T \in SUBSET Commands,
         batch' = [batch EXCEPT ![p].claimed = S, ![p].enqueued = T]
  PROVE  batch' \in [Dispatchers -> Batches]
<1> DEFINE half == [batch EXCEPT ![p].claimed = S]
<1>1. batch \in [Dispatchers -> Batches]
  BY DEF TransportTyped, Batches
<1>2. half \in [Dispatchers -> Batches]
  BY <1>1 DEF Batches
<1>3. batch' = [half EXCEPT ![p].enqueued = T]
  OBVIOUS
<1> HIDE DEF half
<1> QED BY <1>2, <1>3 DEF Batches

\* A released or published event has no holder.
LEMMA EventMoves ==
  ASSUME TransportTyped, NEW x \in Commands,
         \/ event' = event
         \/ event' = [event EXCEPT ![x].holder = NoDispatcher, ![x].leased = FALSE]
         \/ event' = [event EXCEPT ![x] = [published |-> TRUE, holder |-> NoDispatcher, leased |-> FALSE]]
  PROVE  event' \in [Commands -> Events]
<1> DEFINE row == [published |-> TRUE, holder |-> NoDispatcher, leased |-> FALSE]
           free == [event[x] EXCEPT !.holder = NoDispatcher, !.leased = FALSE]
<1>1. event \in [Commands -> Events] /\ event[x] \in Events
  BY DEF TransportTyped, Events
<1>2. row \in Events /\ free \in Events
  BY <1>1 DEF Events
<1>3. event' = event \/ event' = [event EXCEPT ![x] = free] \/ event' = [event EXCEPT ![x] = row]
  BY <1>1
<1> HIDE DEF row, free
<1> QED BY <1>1, <1>2, <1>3

\* A step that passes by the outbox and the job of a command.
LEMMA PassesBy ==
  ASSUME PipelineInv, NEW c \in Commands, FirstStep(c), UNCHANGED <<event, batch, lost>>,
         job'[Execute(c)] = job[Execute(c)]
  PROVE  OutboxInv(c)'
BY DEF PipelineInv, FirstInv, FirstStep, Unstarted, OutboxInv, Claimed, Added

\* Claiming, dropping and publishing events.
LEMMA OutboxStep ==
  ASSUME PipelineInv, NEW p \in Dispatchers,
         \/ ClaimOutboxEvents(p) \/ DispatcherCrashes(p)
         \/ \E c \in Commands : MarkOutboxPublished(p, c) \/ EnqueueProviderCommand(p, c)
                                \/ ReleaseOutboxClaim(p, c)
  PROVE  TransportTyped' /\ \A c \in Commands : OutboxInv(c)'
<1>0. TransportTyped /\ \A c \in Commands : OutboxInv(c)
  BY DEF PipelineInv
<1>1. CASE ClaimOutboxEvents(p)
  <2> DEFINE S == {c \in Commands : Dispatchable(c)}
  <2>1. /\ batch' = [batch EXCEPT ![p].claimed = S] /\ S \subseteq Commands
        /\ \A c \in S : cmd[c].status # "none"
        /\ event' = [c \in Commands |->
                       IF c \in S THEN [event[c] EXCEPT !.holder = p, !.leased = TRUE] ELSE event[c]]
        /\ UNCHANGED <<cmd, job, lost>>
    BY <1>1 DEF ClaimOutboxEvents, Dispatchable, vars
  <2> HIDE DEF S
  <2>2. TransportTyped'
    BY <1>0, <2>1 DEF TransportTyped
  <2>3. ASSUME NEW c \in Commands PROVE OutboxInv(c)'
    <3>1. OutboxInv(c) /\ event'[c].published = event[c].published
      BY <1>0, <2>1 DEF TransportTyped
    <3>2. \A q \in Dispatchers : /\ batch'[q].enqueued = batch[q].enqueued
                                 /\ batch'[q].claimed = batch[q].claimed \/ batch'[q].claimed = S
      BY <1>0, <2>1 DEF TransportTyped
    <3> QED BY <2>1, <3>1, <3>2 DEF OutboxInv, Claimed, Added
  <2> QED BY <2>2, <2>3
<1>2. CASE DispatcherCrashes(p)
  <2>1. batch' = [batch EXCEPT ![p] = NoBatch] /\ UNCHANGED <<cmd, event, job, lost>>
    BY <1>2 DEF DispatcherCrashes, vars
  <2>2. TransportTyped'
    BY <1>0, <2>1 DEF TransportTyped, NoBatch
  <2>3. \A q \in Dispatchers : batch'[q].claimed \subseteq batch[q].claimed
                               /\ batch'[q].enqueued \subseteq batch[q].enqueued
    BY <1>0, <2>1 DEF TransportTyped, NoBatch
  <2> QED BY <1>0, <2>1, <2>2, <2>3 DEF OutboxInv, Claimed, Added
<1>3. ASSUME NEW x \in Commands, MarkOutboxPublished(p, x)
      PROVE  TransportTyped' /\ \A c \in Commands : OutboxInv(c)'
  <2>1. /\ x \in batch[p].enqueued
        /\ batch' = [batch EXCEPT ![p].enqueued = @ \ {x}]
        /\ \/ event' = event
           \/ event' = [event EXCEPT ![x] = [published |-> TRUE, holder |-> NoDispatcher, leased |-> FALSE]]
        /\ UNCHANGED <<cmd, job, lost>>
    BY <1>3 DEF MarkOutboxPublished, vars
  <2>2. TransportTyped'
    <3>1. batch' \in [Dispatchers -> Batches]
      BY <1>0, <2>1 DEF TransportTyped, Batches
    <3>2. event' \in [Commands -> Events]
      BY <1>0, <2>1, EventMoves
    <3> QED BY <1>0, <2>1, <3>1, <3>2 DEF TransportTyped, Events, Batches
  <2>3. ASSUME NEW c \in Commands PROVE OutboxInv(c)'
    <3>1. event'[c].published => event[c].published \/ c = x
      BY <1>0, <2>1 DEF TransportTyped
    <3>2. \A q \in Dispatchers : batch'[q].claimed = batch[q].claimed
                                 /\ batch'[q].enqueued \subseteq batch[q].enqueued
      BY <1>0, <2>1 DEF TransportTyped
    <3> QED BY <1>0, <2>1, <3>1, <3>2 DEF OutboxInv, Claimed, Added
  <2> QED BY <2>2, <2>3
<1>4. ASSUME NEW x \in Commands, EnqueueProviderCommand(p, x)
      PROVE  TransportTyped' /\ \A c \in Commands : OutboxInv(c)'
  <2>1. /\ x \in batch[p].claimed /\ AddJobs({Execute(x)})
        /\ batch' = [batch EXCEPT ![p].claimed = @ \ {x}, ![p].enqueued = @ \cup {x}]
        /\ UNCHANGED <<cmd, event, lost>>
    BY <1>4 DEF EnqueueProviderCommand, vars
  <2>2. TransportTyped'
    <3>1. batch[p].claimed \ {x} \in SUBSET Commands /\ batch[p].enqueued \cup {x} \in SUBSET Commands
      BY <1>0 DEF TransportTyped
    <3>2. batch' \in [Dispatchers -> Batches]
      BY <1>0, <2>1, <3>1, BatchMoves
    <3> QED BY <1>0, <2>1, <3>2, AddedJobs DEF TransportTyped, Batches
  <2>3. ASSUME NEW c \in Commands PROVE OutboxInv(c)'
    <3>1. \A q \in Dispatchers : batch'[q].claimed \subseteq batch[q].claimed
                                 /\ batch'[q].enqueued \subseteq batch[q].enqueued \cup {x}
      BY <1>0, <2>1 DEF TransportTyped
    <3>2. CASE c = x
      <4>1. cmd[c].status # "none"
        BY <1>0, <2>1, <3>2 DEF OutboxInv, Claimed
      <4>2. job[Execute(c)] \in {"none", "waiting"} => job'[Execute(c)] = "waiting"
        BY <1>0, <2>1, <3>2, AddedJobs, JobsDiffer
      <4> QED BY <1>0, <2>1, <4>1, <4>2 DEF OutboxInv
    <3>3. CASE c # x
      <4>1. job'[Execute(c)] = job[Execute(c)]
        BY <1>0, <2>1, <3>3, AddedJobs, JobsDiffer
      <4> QED BY <1>0, <2>1, <3>1, <3>3, <4>1 DEF OutboxInv, Claimed, Added
    <3> QED BY <3>2, <3>3
  <2> QED BY <2>2, <2>3
<1>5. ASSUME NEW x \in Commands, ReleaseOutboxClaim(p, x)
      PROVE  TransportTyped' /\ \A c \in Commands : OutboxInv(c)'
  <2>1. /\ x \in batch[p].claimed \cup batch[p].enqueued
        /\ AddJobs({Execute(x)}) \/ UNCHANGED job
        /\ batch' = [batch EXCEPT ![p].claimed = @ \ {x}, ![p].enqueued = @ \ {x}]
        /\ event' = event \/ event' = [event EXCEPT ![x].holder = NoDispatcher, ![x].leased = FALSE]
        /\ UNCHANGED <<cmd, lost>>
    BY <1>5 DEF ReleaseOutboxClaim, vars
  <2>2. TransportTyped'
    <3>1. batch[p].claimed \ {x} \in SUBSET Commands /\ batch[p].enqueued \ {x} \in SUBSET Commands
      BY <1>0 DEF TransportTyped
    <3>2. batch' \in [Dispatchers -> Batches] /\ event' \in [Commands -> Events]
      BY <1>0, <2>1, <3>1, BatchMoves, EventMoves
    <3> QED BY <1>0, <2>1, <3>2, AddedJobs DEF TransportTyped, Batches, Events
  <2>3. ASSUME NEW c \in Commands PROVE OutboxInv(c)'
    <3>1. \A q \in Dispatchers : batch'[q].claimed \subseteq batch[q].claimed
                                 /\ batch'[q].enqueued \subseteq batch[q].enqueued
      BY <1>0, <2>1 DEF TransportTyped
    <3>2. event'[c].published = event[c].published
      BY <1>0, <2>1 DEF TransportTyped
    <3>3. cmd[x].status # "none"
      BY <1>0, <2>1 DEF OutboxInv, Claimed, Added
    <3>4. /\ job[Execute(c)] = "waiting" => job'[Execute(c)] = "waiting"
          /\ job[Execute(c)] = "none" => job'[Execute(c)] \in {"none", "waiting"}
          /\ c # x => job'[Execute(c)] = job[Execute(c)]
      BY <1>0, <2>1, AddedJobs, JobsDiffer
    <3> QED BY <1>0, <2>1, <3>1, <3>2, <3>3, <3>4 DEF OutboxInv, Claimed, Added
  <2> QED BY <2>2, <2>3
<1> QED BY <1>1, <1>2, <1>3, <1>4, <1>5

\* Jobs added by the operator and by a verification request, and those that the queue hands out
\* again, drops or loses.
LEMMA QueueStep ==
  ASSUME PipelineInv,
         \/ ReplayQueue \/ RedisLosesJobs
         \/ \E c \in Commands : RequestSendVerification(c) \/ DispatchLeaseExpires(c)
         \/ \E j \in JobIds : JobStalls(j) \/ EvictJob(j)
  PROVE  TransportTyped' /\ \A c \in Commands : OutboxInv(c)'
<1>0. TransportTyped /\ \A c \in Commands : OutboxInv(c)
  BY DEF PipelineInv
<1>1. CASE ReplayQueue
  <2>1. PICK S \in SUBSET {c \in Commands : cmd[c].status \in {"pending", "retryable"}} :
          AddJobs({Execute(c) : c \in S})
    BY <1>1 DEF ReplayQueue
  <2>2. UNCHANGED <<cmd, event, batch, lost>>
    BY <1>1 DEF ReplayQueue, vars
  <2>3. TransportTyped'
    BY <1>0, <2>1, <2>2, AddedJobs DEF TransportTyped
  <2>4. ASSUME NEW c \in Commands PROVE OutboxInv(c)'
    <3>1. cmd[c].status = "none" => Execute(c) \notin {Execute(x) : x \in S}
      BY <2>1, JobsDiffer
    <3>2. /\ job[Execute(c)] = "waiting" => job'[Execute(c)] = "waiting"
          /\ job[Execute(c)] = "none" => job'[Execute(c)] \in {"none", "waiting"}
          /\ cmd[c].status = "none" => job'[Execute(c)] = job[Execute(c)]
      BY <1>0, <2>1, <3>1, AddedJobs, JobsDiffer
    <3> QED BY <1>0, <2>2, <3>2 DEF OutboxInv, Claimed, Added
  <2> QED BY <2>3, <2>4
<1>2. CASE RedisLosesJobs
  <2>1. job' = [j \in JobIds |-> "none"] /\ lost' = TRUE /\ UNCHANGED <<cmd, event, batch>>
    BY <1>2 DEF RedisLosesJobs, vars
  <2> QED BY <1>0, <2>1, JobsDiffer DEF TransportTyped, OutboxInv, Claimed, Added
<1>3. ASSUME NEW x \in Commands, RequestSendVerification(x)
      PROVE  TransportTyped' /\ \A c \in Commands : OutboxInv(c)'
  <2>1. AddJobs({Verify(x)}) /\ UNCHANGED <<cmd, event, batch, lost>>
    BY <1>3 DEF RequestSendVerification, vars
  <2>2. TransportTyped' /\ \A c \in Commands : job'[Execute(c)] = job[Execute(c)]
    BY <1>0, <2>1, AddedJobs, JobsDiffer DEF TransportTyped
  <2> QED BY <1>0, <2>1, <2>2 DEF OutboxInv, Claimed, Added
<1>4. ASSUME NEW x \in Commands, DispatchLeaseExpires(x)
      PROVE  TransportTyped' /\ \A c \in Commands : OutboxInv(c)'
  <2>1. event' = [event EXCEPT ![x].leased = FALSE] /\ UNCHANGED <<cmd, batch, job, lost>>
    BY <1>4 DEF DispatchLeaseExpires, vars
  <2>2. TransportTyped' /\ \A c \in Commands : event'[c].published = event[c].published
    BY <1>0, <2>1 DEF TransportTyped
  <2> QED BY <1>0, <2>1, <2>2 DEF OutboxInv, Claimed, Added
<1>5. ASSUME NEW j \in JobIds, JobStalls(j) \/ EvictJob(j)
      PROVE  TransportTyped' /\ \A c \in Commands : OutboxInv(c)'
  <2>1. /\ job[j] \in {"active", "finished"} /\ UNCHANGED <<cmd, event, batch, lost>>
        /\ \E s \in {"none", "waiting", "finished"} : job' = [job EXCEPT ![j] = s]
    BY <1>5 DEF JobStalls, EvictJob, FinishJob, vars
  <2>2. TransportTyped'
    BY <1>0, <2>1 DEF TransportTyped
  <2>3. ASSUME NEW c \in Commands PROVE OutboxInv(c)'
    <3>1. CASE j # Execute(c)
      <4>1. job'[Execute(c)] = job[Execute(c)]
        BY <1>0, <2>1, <3>1, JobsDiffer DEF TransportTyped
      <4> QED BY <1>0, <2>1, <4>1 DEF OutboxInv, Claimed, Added
    <3>2. CASE j = Execute(c)
      BY <1>0, <2>1, <3>2 DEF OutboxInv, Claimed, Added
    <3> QED BY <3>1, <3>2
  <2> QED BY <2>2, <2>3
<1> QED BY <1>1, <1>2, <1>3, <1>4, <1>5

\* The job that a slot runs is of a command that has been claimed.
LEMMA SlotsKeepOutbox ==
  ASSUME PipelineInv, [PipelineNext]_pipelineVars, NEW w \in Workers,
         TakeJob(w) \/ RunJob(w) \/ WorkerCrashes(w)
  PROVE  TransportTyped' /\ \A c \in Commands : OutboxInv(c)'
<1>0. /\ TransportTyped /\ RowInv /\ FirstInv
      /\ \A c \in Commands : OutboxInv(c) /\ FirstStep(c)
  BY PipelineStep, FirstStepNext DEF PipelineInv
<1>1. UNCHANGED <<event, batch, lost>>
  BY DEF TakeJob, TakeExecuteJob, ExecuteNotClaimed, TakeVerifyJob, VerifyNotClaimed, RunJob,
         WorkerCrashes, transport
<1>2. ASSUME NEW x \in Commands, NEW s \in {"active", "finished"},
             \/ job' = [job EXCEPT ![Verify(x)] = s]
             \/ job' = [job EXCEPT ![Execute(x)] = s] /\ cmd'[x].status \notin Unstarted
      PROVE  TransportTyped' /\ \A c \in Commands : OutboxInv(c)'
  <2>1. TransportTyped'
    BY <1>0, <1>1, <1>2 DEF TransportTyped
  <2>2. ASSUME NEW c \in Commands PROVE OutboxInv(c)'
    <3>1. CASE job'[Execute(c)] = job[Execute(c)]
      BY <1>0, <1>1, <3>1, PassesBy
    <3>2. CASE job'[Execute(c)] # job[Execute(c)]
      <4>1. c = x /\ cmd'[c].status \notin Unstarted
        BY <1>0, <1>2, <3>2, JobsDiffer DEF TransportTyped
      <4> QED BY <4>1 DEF OutboxInv, Unstarted
    <3> QED BY <3>1, <3>2
  <2> QED BY <2>1, <2>2
<1>3. CASE UNCHANGED job
  BY <1>0, <1>1, <1>3, PassesBy DEF TransportTyped
<1>4. ASSUME NEW c \in Commands,
             TakeExecuteJob(w, c) \/ ExecuteNotClaimed(w, c) \/ TakeVerifyJob(w, c) \/ VerifyNotClaimed(w, c)
      PROVE  TransportTyped' /\ \A x \in Commands : OutboxInv(x)'
  <2>1. CASE TakeExecuteJob(w, c)
    <3>1. job' = [job EXCEPT ![Execute(c)] = "active"]
      BY <2>1 DEF TakeExecuteJob
    <3>2. cmd'[c].status \notin Unstarted
      BY <1>0, <2>1 DEF TakeExecuteJob, ClaimCommand, RowInv, TypeOK, CommandRow, Unstarted
    <3> QED BY <1>2, <3>1, <3>2
  <2>2. CASE ExecuteNotClaimed(w, c)
    <3>1. job' = [job EXCEPT ![Execute(c)] = "finished"] /\ cmd' = cmd /\ job[Execute(c)] = "waiting"
      BY <2>2 DEF ExecuteNotClaimed, FinishJob, vars
    <3>2. cmd[c].status # "pending"
      BY <1>0, <2>2 DEF ExecuteNotClaimed, FirstInv
    <3>3. cmd[c].status # "none"
      BY <1>0, <3>1 DEF OutboxInv
    <3> QED BY <1>2, <3>1, <3>2, <3>3 DEF Unstarted
  <2>3. CASE TakeVerifyJob(w, c)
    BY <1>2, <2>3 DEF TakeVerifyJob
  <2>4. CASE VerifyNotClaimed(w, c)
    BY <1>2, <2>4 DEF VerifyNotClaimed, FinishJob
  <2> QED BY <1>4, <2>1, <2>2, <2>3, <2>4
<1>5. CASE RunJob(w)
  <2>1. CASE UNCHANGED job
    BY <1>3, <2>1
  <2>2. CASE FinishJob(JobOf(w))
    <3> DEFINE c == work[w].cmd
    <3>1. work[w].pc # "idle"
      BY <1>5 DEF RunJob, ExecutionStep, VerificationStep, LoadDraft, PreflightGetDraft, CompleteConflict,
         MarkProviderExecutionStarted, CallProvider, CompleteConfirmed, CatchBeforeMarker,
         CatchAfterMarker, SearchByMessageId, CompleteRecovered, ReleaseRecoveryClaim, Abandon
    <3>2. c \in Commands /\ cmd[c].status \notin Unstarted
      BY <1>0, <3>1 DEF RowInv, RowsOK, FirstInv
    <3>3. cmd'[c].status \notin Unstarted
      BY <1>0, <3>2 DEF FirstStep, Unstarted
    <3>4. JobOf(w) \in {Verify(c), Execute(c)}
      BY DEF JobOf
    <3> HIDE DEF c
    <3> QED BY <1>2, <2>2, <3>2, <3>3, <3>4 DEF FinishJob
  <2> QED BY <1>5, <2>1, <2>2 DEF RunJob
<1>6. CASE WorkerCrashes(w)
  BY <1>3, <1>6 DEF WorkerCrashes, transport
<1> QED BY <1>4, <1>5, <1>6 DEF TakeJob

\* The pipeline's invariant is inductive.
LEMMA PipelineInvNext == PipelineInv /\ [PipelineNext]_pipelineVars => PipelineInv'
<1> SUFFICES ASSUME PipelineInv, [PipelineNext]_pipelineVars PROVE PipelineInv'
  OBVIOUS
<1>1. RowInv' /\ FirstInv'
  BY PipelineStep, RowInvNext, FirstInvNext DEF PipelineInv
<1>2. CASE UNCHANGED transport
  <2>1. UNCHANGED <<event, batch, job, lost>>
    BY <1>2 DEF transport
  <2>2. \A c \in Commands : FirstStep(c)
    BY PipelineStep, FirstStepNext DEF PipelineInv
  <2>3. TransportTyped'
    BY <2>1 DEF PipelineInv, TransportTyped
  <2> QED BY <1>1, <2>1, <2>2, <2>3, PassesBy DEF PipelineInv
<1>3. CASE Dispatch
  BY <1>1, <1>3, OutboxStep DEF Dispatch, PipelineInv
<1>4. CASE ReplayQueue \/ Queue \/ \E c \in Commands : DispatchLeaseExpires(c) \/ RequestSendVerification(c)
  BY <1>1, <1>4, QueueStep DEF Queue, PipelineInv
<1>5. ASSUME NEW w \in Workers, TakeJob(w) \/ RunJob(w) \/ WorkerCrashes(w) PROVE PipelineInv'
  BY <1>1, <1>5, SlotsKeepOutbox DEF PipelineInv
<1>6. RequestMutation \/ Background \/ UNCHANGED pipelineVars => UNCHANGED transport
  BY DEF RequestMutation, Background, pipelineVars, transport
<1> QED BY <1>2, <1>3, <1>4, <1>5, <1>6 DEF PipelineNext

\* For any number of commands, dispatchers and slots, an unexecuted command whose event is
\* published has a waiting job until Redis itself loses data (outbox-repository.ts).
THEOREM PublishedStaysQueued == PipelineSpec => []PublishedIsQueued
<1>1. PipelineInv => PublishedIsQueued
  BY DEF PipelineInv, OutboxInv, Added, PublishedIsQueued
<1> QED BY PipelineInvInit, PipelineInvNext, <1>1, PTL DEF PipelineSpec

\* Behind the outbox and the queue too, whatever is replayed, redelivered or lost there, no
\* command calls Gmail twice.
THEOREM PipelineCallsOnce == PipelineSpec => []AtMostOneCall
BY PipelineImplementsCommands, NoSecondCall, PTL

------------------------------------------------------------------------------
(* Fencing.  Only a job that ends while it holds the claim takes a running       *)
(* command with a live lease out of that status.                               *)

\* The slot that holds the claim of c ends its job in this step.
Ended(c) == \E w \in Workers : cmd[c].owner = w /\ work[w].cmd = c /\ work'[w].pc = "idle"

\* ClaimFencing, as one step.
Fenced == \A c \in Commands :
  cmd[c].status = "running" /\ cmd[c].leased /\ cmd'[c].status # "running" => Ended(c)

\* A job that owns its command and ends, whatever it writes to that row.
LEMMA OwnerEnds ==
  ASSUME TypeOK, NEW w \in Workers, Executing(w), Finish(w), work[w].cmd \in Commands,
         \A x \in Commands \ {work[w].cmd} : cmd'[x] = cmd[x]
  PROVE  Fenced
BY DEF Fenced, Ended, Executing, HoldsClaim, Finish, Idle, TypeOK

\* Every step respects a live lease.
LEMMA FencedNext == RowInv /\ [Next]_vars => Fenced
<1> SUFFICES ASSUME RowInv, [Next]_vars PROVE Fenced
  OBVIOUS
<1>0. TypeOK /\ cmd \in [Commands -> CommandRow]
      /\ \A w \in Workers : work[w].pc # "idle" =>
           work[w].cmd \in Commands /\ cmd[work[w].cmd].draft \in Drafts
  BY DEF RowInv, RowsOK, TypeOK
<1>1. CASE \A c \in Commands : cmd[c].status = "running" => cmd'[c].status = "running"
  BY <1>1 DEF Fenced
<1>2. CASE UNCHANGED vars \/ Gmail \/ UserRequests \/ RepairInconsistentDraftStates
  <2>1. \A c \in Commands : cmd[c].status = "running" => cmd'[c].status = "running"
    BY <1>0, <1>2 DEF vars, Gmail, GmailAccepts, GmailRefuses, GmailUserEdits, GmailUserDeletes,
       GmailUserSends, UserRequests, CreateDraft, UpdateDraft, SendDraft, NewKey,
       RepairInconsistentDraftStates
  <2> QED BY <1>1, <2>1
<1>3. ASSUME NEW w \in Workers, NEW c \in Commands, ClaimCommand(w, c) \/ ClaimRecovery(w, c)
      PROVE  Fenced
  <2>1. \A x \in Commands : cmd[x].status = "running" => cmd'[x].status = "running"
    BY <1>0, <1>3 DEF ClaimCommand, ClaimRecovery
  <2> QED BY <1>1, <2>1
<1>4. ASSUME NEW w \in Workers,
             LoadDraft(w) \/ PreflightGetDraft(w) \/ CallProvider(w) \/ SearchByMessageId(w)
             \/ Abandon(w)
      PROVE  Fenced
  BY <1>4 DEF Fenced, LoadDraft, PreflightGetDraft, CallProvider, SearchByMessageId, Abandon
<1>5. ASSUME NEW w \in Workers, MarkProviderExecutionStarted(w) \/ ReleaseRecoveryClaim(w)
      PROVE  Fenced
  <2>1. \A x \in Commands : cmd'[x].status = cmd[x].status
    BY <1>0, <1>5 DEF MarkProviderExecutionStarted, ReleaseRecoveryClaim, CommandRow
  <2> QED BY <1>1, <2>1
<1>6. ASSUME NEW w \in Workers, CompleteConflict(w) PROVE Fenced
  BY <1>0, <1>6, SettleEnds, OwnerEnds DEF CompleteConflict, Ends
<1>7. ASSUME NEW w \in Workers, CompleteConfirmed(w) PROVE Fenced
  BY <1>0, <1>7, SettleEnds, OwnerEnds DEF CompleteConfirmed, Succeed, Ends
<1>8. ASSUME NEW w \in Workers, CatchBeforeMarker(w) PROVE Fenced
  BY <1>0, <1>8, CatchBeforeMarkerEnds, OwnerEnds DEF CatchBeforeMarker, Ends
<1>9. ASSUME NEW w \in Workers, CatchAfterMarker(w) PROVE Fenced
  BY <1>0, <1>9, RequireRecoveryEnds, OwnerEnds DEF CatchAfterMarker, Ends
<1>10. ASSUME NEW w \in Workers, CompleteRecovered(w) PROVE Fenced
  <2>1. /\ cmd[work[w].cmd].status = "recovery_required"
        /\ \A x \in Commands \ {work[w].cmd} : cmd'[x] = cmd[x]
    BY <1>0, <1>10, SettleEnds DEF CompleteRecovered, HoldsClaim, Succeed, Ends
  <2> QED BY <1>1, <2>1
<1>11. ASSUME NEW c \in Commands, LeaseExpires(c) \/ BackoffElapses(c) PROVE Fenced
  <2>1. \A x \in Commands : cmd'[x].status = cmd[x].status
    BY <1>0, <1>11 DEF LeaseExpires, BackoffElapses, CommandRow
  <2> QED BY <1>1, <2>1
<1>12. CASE RecoverExpiredLeases
  <2>1. \A c \in Commands : cmd[c].leased => cmd'[c] = cmd[c]
    BY <1>0, <1>12, RecoveredRow DEF ExpiredCommands
  <2> QED BY <2>1 DEF Fenced
<1> QED BY <1>2, <1>3, <1>4, <1>5, <1>6, <1>7, <1>8, <1>9, <1>10, <1>11, <1>12
        DEF Next, WorkerStep, ExecutionStep, VerificationStep, Passage, Maintenance

\* While the lease of a running command is live, only the slot that claimed it
\* takes it out of that status.
THEOREM OnlyTheClaimSettles == Spec => ClaimFencing
<1>1. RowInv /\ [Next]_vars =>
        [\A c \in Commands :
           cmd[c].status = "running" /\ cmd[c].leased /\ cmd'[c].status # "running"
           => \E w \in Workers : /\ cmd[c].owner = w
                                 /\ work[w].cmd = c
                                 /\ work'[w].pc = "idle"]_vars
  BY FencedNext DEF Fenced, Ended
<1>2. Spec => []RowInv
  BY RowInvInit, RowInvNext, PTL DEF Spec
<1> QED BY <1>1, <1>2, PTL DEF Spec, ClaimFencing

------------------------------------------------------------------------------
(* Finality.                                                                 *)

\* The statuses that nothing leaves.
Final == {"succeeded", "failed"}

\* No lease outlives its command.
FinalUnleased == \A c \in Commands : cmd[c].status \in Final => ~cmd[c].leased

\* A step that writes the row of an unsettled command only.
WritesRow(c) ==
  /\ cmd[c].status \notin Final
  /\ cmd'[c].status \in Final => ~cmd'[c].leased
  /\ \A x \in Commands \ {c} : cmd'[x] = cmd[x]

\* SettledIsFinal for the commands, as one step.
FinalKept == \A c \in Commands : cmd[c].status \in Final => cmd'[c] = cmd[c]

\* Writing the row of an unsettled command keeps the settled ones.
LEMMA RowWriteIsFinal ==
  ASSUME FinalUnleased, NEW c \in Commands, WritesRow(c)
  PROVE  FinalKept /\ FinalUnleased'
BY DEF FinalUnleased, WritesRow, FinalKept

\* Settling an unsettled command releases its lease.
LEMMA SettleWritesRow ==
  ASSUME TypeOK, NEW c \in Commands, cmd[c].status \in Active, NEW status, Settle(c, status)
  PROVE  WritesRow(c)
BY DEF Settle, TypeOK, CommandRow, WritesRow, Final, Active

\* Settled commands keep their rows, and no lease.
LEMMA FinalCommands == RowInv /\ FinalUnleased /\ [Next]_vars => FinalKept /\ FinalUnleased'
<1> SUFFICES ASSUME RowInv, FinalUnleased, [Next]_vars PROVE FinalKept /\ FinalUnleased'
  OBVIOUS
<1>0. TypeOK /\ cmd \in [Commands -> CommandRow]
      /\ \A w \in Workers : work[w].pc # "idle" => work[w].cmd \in Commands
  BY DEF RowInv, RowsOK, TypeOK
<1>1. CASE cmd' = cmd
  BY <1>1 DEF FinalKept, FinalUnleased
<1>2. CASE UNCHANGED vars \/ Gmail \/ RepairInconsistentDraftStates
  BY <1>1, <1>2 DEF vars, Gmail, GmailAccepts, GmailRefuses, GmailUserEdits, GmailUserDeletes,
     GmailUserSends, RepairInconsistentDraftStates
<1>3. ASSUME NEW d \in Drafts, NEW c \in Commands,
             CreateDraft(d, c) \/ UpdateDraft(d, c) \/ SendDraft(d, c)
      PROVE  FinalKept /\ FinalUnleased'
  <2>1. WritesRow(c)
    BY <1>0, <1>3 DEF CreateDraft, UpdateDraft, SendDraft, NewKey, PendingCommand, WritesRow, Final
  <2> QED BY <2>1, RowWriteIsFinal
<1>4. ASSUME NEW w \in Workers, NEW c \in Commands, ClaimCommand(w, c) \/ ClaimRecovery(w, c)
      PROVE  FinalKept /\ FinalUnleased'
  <2>1. WritesRow(c)
    BY <1>0, <1>4 DEF ClaimCommand, ClaimRecovery, WritesRow, Final, CommandRow
  <2> QED BY <2>1, RowWriteIsFinal
<1>5. ASSUME NEW w \in Workers,
             LoadDraft(w) \/ PreflightGetDraft(w) \/ CallProvider(w) \/ SearchByMessageId(w)
             \/ Abandon(w)
      PROVE  FinalKept /\ FinalUnleased'
  BY <1>1, <1>5 DEF LoadDraft, PreflightGetDraft, CallProvider, SearchByMessageId, Abandon
<1>6. ASSUME NEW w \in Workers, MarkProviderExecutionStarted(w) \/ ReleaseRecoveryClaim(w)
      PROVE  FinalKept /\ FinalUnleased'
  <2>1. work[w].cmd \in Commands /\ (cmd' = cmd \/ WritesRow(work[w].cmd))
    BY <1>0, <1>6 DEF MarkProviderExecutionStarted, ReleaseRecoveryClaim, Executing, HoldsClaim,
       WritesRow, Final, CommandRow
  <2> QED BY <1>1, <2>1, RowWriteIsFinal
<1>7. ASSUME NEW w \in Workers,
             \/ CompleteConflict(w) \/ CompleteConfirmed(w) \/ CompleteRecovered(w)
             \/ CatchBeforeMarker(w) \/ CatchAfterMarker(w)
      PROVE  FinalKept /\ FinalUnleased'
  <2>1. work[w].cmd \in Commands /\ cmd[work[w].cmd].status \in Active
    BY <1>0, <1>7 DEF CompleteConflict, CompleteConfirmed, CompleteRecovered, CatchBeforeMarker,
       CatchAfterMarker, Executing, HoldsClaim, Active
  <2>2. \/ \E status \in {"succeeded", "failed", "recovery_required"} : Settle(work[w].cmd, status)
        \/ cmd' = [cmd EXCEPT ![work[w].cmd].status = "retryable", ![work[w].cmd].owner = NoWorker,
                              ![work[w].cmd].leased = FALSE, ![work[w].cmd].due = FALSE]
    BY <1>7 DEF CompleteConflict, CompleteConfirmed, CompleteRecovered, CatchBeforeMarker,
       CatchAfterMarker, Succeed, RequireRecovery, ScheduleRetry, ErrorsAt, ErrorClasses
  <2>3. WritesRow(work[w].cmd)
    BY <1>0, <2>1, <2>2, SettleWritesRow DEF WritesRow, Final, Active, CommandRow
  <2> QED BY <2>1, <2>3, RowWriteIsFinal
<1>8. ASSUME NEW c \in Commands, LeaseExpires(c) \/ BackoffElapses(c)
      PROVE  FinalKept /\ FinalUnleased'
  <2>1. WritesRow(c)
    BY <1>0, <1>8 DEF LeaseExpires, BackoffElapses, WritesRow, Final, CommandRow, FinalUnleased
  <2> QED BY <2>1, RowWriteIsFinal
<1>9. CASE RecoverExpiredLeases
  BY <1>0, <1>9, RecoveredRow DEF FinalKept, FinalUnleased, Final
<1> QED BY <1>2, <1>3, <1>4, <1>5, <1>6, <1>7, <1>8, <1>9
        DEF Next, UserRequests, WorkerStep, ExecutionStep, VerificationStep, Passage, Maintenance

\* SettledIsFinal for the drafts, as one step.
DraftsKept == \A d \in Drafts :
  /\ draft[d].status \in {"sent", "conflict"} => draft'[d] = draft[d]
  /\ draft[d].status = "recovery_required" => draft'[d] = draft[d] \/ VerifiedMatch(d)

\* A step that writes only a draft in progress, or one whose command it verifies.
LEMMA InProgressWrite ==
  ASSUME NEW d \in Drafts, \A e \in Drafts \ {d} : draft'[e] = draft[e],
         \/ draft[d].status \in InProgress \cup {"none", "ready"}
         \/ draft[d].status = "recovery_required" /\ VerifiedMatch(d)
  PROVE  DraftsKept
BY DEF DraftsKept, InProgress

\* A confirmation writes a draft in progress, or the uncertain send it has verified.
LEMMA ConfirmedWrite ==
  ASSUME RowInv, OwnInv, NEW w \in Workers, CompleteConfirmed(w) \/ CompleteRecovered(w)
  PROVE  DraftsKept
<1> DEFINE c == work[w].cmd
<1> DEFINE d == cmd[c].draft
<1>1. PICK version : Succeed(c, version)
  BY DEF CompleteConfirmed, CompleteRecovered
<1>2. work[w].pc # "idle" /\ ConfirmableDraft(c)
  BY DEF CompleteConfirmed, CompleteRecovered
<1>3. TypeOK /\ c \in Commands /\ d \in Drafts /\ cmd[c].type \in Types
  BY <1>2 DEF RowInv, RowsOK, TypeOK, Job
<1>4. \A e \in Drafts \ {d} : draft'[e] = draft[e]
  BY <1>1, <1>3 DEF Succeed, TypeOK
<1>5. /\ draft[d].last = c
      /\ draft[d].status \in InProgress \/ draft[d].status = "recovery_required"
  BY <1>2, <1>3 DEF ConfirmableDraft, Types, InProgress
<1>6. CASE CompleteConfirmed(w)
  <2>1. cmd[c].status = "running"
    BY <1>6 DEF CompleteConfirmed, Executing, HoldsClaim
  <2>2. draft[d].status \in InProgress
    BY <1>3, <2>1 DEF OwnInv, ActiveCommandOwnsDraft, Active, StatusFor, Types, InProgress
  <2> QED BY <1>3, <1>4, <2>2, InProgressWrite
<1>7. CASE CompleteRecovered(w)
  <2>1. work[w].pc = "found" /\ cmd[c].status = "recovery_required"
    BY <1>7 DEF CompleteRecovered, HoldsClaim
  <2>2. cmd'[c].status = "succeeded"
    BY <1>1, <1>3, SettleEnds DEF Succeed, Ends
  <2>3. VerifiedMatch(d)
    BY <1>3, <1>5, <2>1, <2>2 DEF VerifiedMatch
  <2> QED BY <1>3, <1>4, <1>5, <2>3, InProgressWrite
<1> QED BY <1>6, <1>7

\* Sent and conflicting drafts keep their rows; an uncertain send waits for its match.
LEMMA FinalDrafts == RowInv /\ OwnInv /\ [Next]_vars => DraftsKept
<1> SUFFICES ASSUME RowInv, OwnInv, [Next]_vars PROVE DraftsKept
  OBVIOUS
<1>0. TypeOK /\ draft \in [Drafts -> DraftRow]
      /\ \A w \in Workers : work[w].pc # "idle" =>
           /\ work[w].cmd \in Commands /\ cmd[work[w].cmd].draft \in Drafts
           /\ cmd[work[w].cmd].type \in Types
           /\ work[w].version \in Nat /\ request[work[w].cmd].version \in Nat
  BY DEF RowInv, RowsOK, TypeOK, Job
<1>1. CASE draft' = draft
  BY <1>1 DEF DraftsKept
<1>2. CASE UNCHANGED vars \/ Gmail \/ Passage
  BY <1>1, <1>2 DEF vars, Gmail, GmailAccepts, GmailRefuses, GmailUserEdits, GmailUserDeletes,
     GmailUserSends, Passage, LeaseExpires, BackoffElapses
<1>3. ASSUME NEW d \in Drafts, NEW c \in Commands,
             CreateDraft(d, c) \/ UpdateDraft(d, c) \/ SendDraft(d, c)
      PROVE  DraftsKept
  <2>1. draft[d].status \in {"none", "ready"} /\ \A e \in Drafts \ {d} : draft'[e] = draft[e]
    BY <1>0, <1>3 DEF CreateDraft, UpdateDraft, SendDraft
  <2> QED BY <2>1, InProgressWrite
<1>4. ASSUME NEW w \in Workers,
             \/ \E c \in Commands : ClaimCommand(w, c) \/ ClaimRecovery(w, c)
             \/ LoadDraft(w) \/ PreflightGetDraft(w) \/ MarkProviderExecutionStarted(w)
             \/ CallProvider(w) \/ SearchByMessageId(w) \/ ReleaseRecoveryClaim(w) \/ Abandon(w)
      PROVE  DraftsKept
  BY <1>1, <1>4 DEF ClaimCommand, ClaimRecovery, LoadDraft, PreflightGetDraft,
     MarkProviderExecutionStarted, CallProvider, SearchByMessageId, ReleaseRecoveryClaim, Abandon
<1>5. ASSUME NEW w \in Workers, CompleteConflict(w) PROVE DraftsKept
  <2>1. /\ draft[cmd[work[w].cmd].draft].status \in InProgress
        /\ \A e \in Drafts \ {cmd[work[w].cmd].draft} : draft'[e] = draft[e]
    BY <1>0, <1>5 DEF CompleteConflict, StatusFor, Types, InProgress
  <2> QED BY <1>0, <1>5, <2>1, InProgressWrite DEF CompleteConflict
<1>6. ASSUME NEW w \in Workers, CompleteConfirmed(w) \/ CompleteRecovered(w) PROVE DraftsKept
  BY <1>6, ConfirmedWrite
<1>7. ASSUME NEW w \in Workers, CatchBeforeMarker(w) \/ CatchAfterMarker(w) PROVE DraftsKept
  <2> DEFINE d == cmd[work[w].cmd].draft
  <2>1. d \in Drafts
    BY <1>0, <1>7 DEF CatchBeforeMarker, CatchAfterMarker
  <2>2. draft' = draft \/ RequireRecovery(work[w].cmd)
    BY <1>7 DEF CatchBeforeMarker, CatchAfterMarker, ScheduleRetry, ErrorsAt, ErrorClasses
  <2>3. draft' = draft \/ (draft[d].status = "sending"
                           /\ draft' = [draft EXCEPT ![d].status = "recovery_required"])
    BY <2>2 DEF RequireRecovery
  <2>4. CASE draft[d].status = "sending" /\ draft' = [draft EXCEPT ![d].status = "recovery_required"]
    BY <1>0, <2>1, <2>4, StatusWrite, InProgressWrite DEF InProgress
  <2> QED BY <1>1, <2>3, <2>4
<1>8. CASE Maintenance
  BY <1>8 DEF Maintenance, RecoverExpiredLeases, RepairInconsistentDraftStates, Inconsistent,
     InProgress, DraftsKept
<1> QED BY <1>2, <1>3, <1>4, <1>5, <1>6, <1>7, <1>8
        DEF Next, UserRequests, WorkerStep, ExecutionStep, VerificationStep

\* Settled rows stay settled: succeeded and failed commands, sent and conflicting
\* drafts, and a draft in recovery_required until a verification finds its match.
THEOREM SettledRowsStay == Spec => SettledIsFinal
<1>1. Init => FinalUnleased
  BY DEF Init, NoRow, FinalUnleased, Final
<1>2. RowInv /\ FinalUnleased /\ [Next]_vars => FinalUnleased'
  BY FinalCommands
<1>3. Spec => [](RowInv /\ OwnInv)
  BY Ownership
<1>4. RowInv /\ OwnInv /\ FinalUnleased /\ [Next]_vars =>
        [/\ \A c \in Commands : cmd[c].status \in {"succeeded", "failed"} => cmd'[c] = cmd[c]
         /\ \A d \in Drafts :
              /\ draft[d].status \in {"sent", "conflict"} => draft'[d] = draft[d]
              /\ draft[d].status = "recovery_required" =>
                   draft'[d] = draft[d] \/ VerifiedMatch(d)]_vars
  BY FinalCommands, FinalDrafts DEF FinalKept, Final, DraftsKept
<1> QED BY <1>1, <1>2, <1>3, <1>4, PTL DEF Spec, SettledIsFinal

------------------------------------------------------------------------------
(* Gmail's side.  The request of a command is its call, its acceptance is on    *)
(* record, and whatever exists of a draft comes from the one create.           *)

\* What was never called has no request.
RequestIsCall == \A c \in Commands : calls[c] = 0 => request[c].state = "none"

\* A request that took effect has its answer, heard or not.
AppliedIsAnswered == \A c \in applied : request[c].state \in {"ok", "error"}

\* An answer is given for a request that took effect.
AnswerIsEvident ==
  \A c \in Commands : request[c].state = "ok" =>
    /\ c \in applied
    /\ request[c].version > 0
    /\ cmd[c].type = "send" => gmail[cmd[c].draft].sent > 0

\* A draft resource or a Sent message comes from the create command of its draft.
CopyHasCreate ==
  \A d \in Drafts : gmail[d].copies + gmail[d].sent > 0 =>
    /\ gmail[d].version > 0
    /\ \E c \in applied : cmd[c].type = "create" /\ cmd[c].draft = d

\* The invariant of Gmail's side.
GmailInv ==
  /\ RequestIsCall
  /\ AppliedIsAnswered
  /\ AnswerIsEvident
  /\ CopyHasCreate
  /\ SingleDelivery

\* An existing command keeps what it stands for.
Stable ==
  \A c \in Commands : cmd[c].status # "none" =>
    /\ cmd'[c].status # "none" /\ cmd'[c].type = cmd[c].type
    /\ cmd'[c].draft = cmd[c].draft /\ cmd'[c].revision = cmd[c].revision

\* The empty mailbox satisfies the invariant.
LEMMA GmailInvInit == Init => GmailInv
BY DEF Init, GmailInv, RequestIsCall, AppliedIsAnswered, AnswerIsEvident, CopyHasCreate,
       SingleDelivery

\* No step changes what an existing command stands for.
LEMMA StableNext == RowInv /\ [Next]_vars => Stable
<1> SUFFICES ASSUME RowInv, [Next]_vars PROVE Stable
  OBVIOUS
<1>0. TypeOK /\ cmd \in [Commands -> CommandRow]
      /\ \A w \in Workers : work[w].pc # "idle" =>
           work[w].cmd \in Commands /\ cmd[work[w].cmd].draft \in Drafts
  BY DEF RowInv, RowsOK, TypeOK
<1>1. CASE cmd' = cmd
  BY <1>1 DEF Stable
<1>2. CASE UNCHANGED vars \/ Gmail \/ RepairInconsistentDraftStates
  BY <1>1, <1>2 DEF vars, Gmail, GmailAccepts, GmailRefuses, GmailUserEdits, GmailUserDeletes,
     GmailUserSends, RepairInconsistentDraftStates
<1>3. ASSUME NEW d \in Drafts, NEW c \in Commands,
             CreateDraft(d, c) \/ UpdateDraft(d, c) \/ SendDraft(d, c)
      PROVE  Stable
  <2>1. cmd[c].status = "none" /\ \A x \in Commands \ {c} : cmd'[x] = cmd[x]
    BY <1>0, <1>3 DEF CreateDraft, UpdateDraft, SendDraft, NewKey
  <2> QED BY <2>1 DEF Stable
<1>4. ASSUME NEW w \in Workers, NEW c \in Commands, ClaimCommand(w, c) \/ ClaimRecovery(w, c)
      PROVE  Stable
  BY <1>0, <1>4 DEF ClaimCommand, ClaimRecovery, Stable, CommandRow
<1>5. ASSUME NEW w \in Workers,
             LoadDraft(w) \/ PreflightGetDraft(w) \/ CallProvider(w) \/ SearchByMessageId(w)
             \/ Abandon(w)
      PROVE  Stable
  BY <1>1, <1>5 DEF LoadDraft, PreflightGetDraft, CallProvider, SearchByMessageId, Abandon
<1>6. ASSUME NEW w \in Workers, MarkProviderExecutionStarted(w) \/ ReleaseRecoveryClaim(w)
      PROVE  Stable
  BY <1>0, <1>6 DEF MarkProviderExecutionStarted, ReleaseRecoveryClaim, Stable, CommandRow
<1>7. ASSUME NEW w \in Workers,
             \/ CompleteConflict(w) \/ CompleteConfirmed(w) \/ CompleteRecovered(w)
             \/ CatchBeforeMarker(w) \/ CatchAfterMarker(w)
      PROVE  Stable
  <2>1. work[w].cmd \in Commands /\ cmd[work[w].cmd].draft \in Drafts
    BY <1>0, <1>7 DEF CompleteConflict, CompleteConfirmed, CompleteRecovered, CatchBeforeMarker,
       CatchAfterMarker
  <2>2. \E status \in {"succeeded", "failed", "retryable", "recovery_required"} :
          Ends(work[w].cmd, status)
    BY <1>0, <1>7, <2>1, SettleEnds, CatchBeforeMarkerEnds, RequireRecoveryEnds
       DEF CompleteConflict, CompleteConfirmed, CompleteRecovered, CatchAfterMarker, Succeed
  <2> QED BY <2>1, <2>2 DEF Stable, Ends
<1>8. ASSUME NEW c \in Commands, LeaseExpires(c) \/ BackoffElapses(c) PROVE Stable
  BY <1>0, <1>8 DEF LeaseExpires, BackoffElapses, Stable, CommandRow
<1>9. CASE RecoverExpiredLeases
  BY <1>0, <1>9, RecoveredRow DEF Stable
<1> QED BY <1>2, <1>3, <1>4, <1>5, <1>6, <1>7, <1>8, <1>9
        DEF Next, UserRequests, WorkerStep, ExecutionStep, VerificationStep, Passage, Maintenance

\* Commands that Gmail knows exist.
LEMMA AppliedExists ==
  ASSUME RowInv, GmailInv
  PROVE  \A c \in Commands : c \in applied \/ request[c].state # "none" =>
           cmd[c].status # "none" /\ cmd[c].draft \in Drafts /\ cmd[c].type \in Types
BY DEF RowInv, RowsOK, TypeOK, GmailInv, AppliedIsAnswered

\* Steps that Gmail takes no part in.
LEMMA QuietKeepsGmailInv ==
  ASSUME RowInv, GmailInv, Stable, UNCHANGED <<gmail, request, calls, applied>>
  PROVE  GmailInv'
<1>1. applied \subseteq Commands
  BY DEF RowInv, TypeOK
<1> QED BY <1>1, AppliedExists
        DEF Stable, GmailInv, RequestIsCall, AppliedIsAnswered, AnswerIsEvident, CopyHasCreate,
            SingleDelivery

\* A call is the first of its command.
LEMMA CallKeepsGmailInv ==
  ASSUME RowInv, CallInv, GmailInv, NEW w \in Workers, CallProvider(w)
  PROVE  GmailInv'
<1> DEFINE c == work[w].cmd
<1>1. c \in Commands /\ calls[c] = 0 /\ calls \in [Commands -> Nat]
  BY DEF CallProvider, RowInv, RowsOK, TypeOK, CallInv, SlotsRespectMarker
<1>2. c \notin applied /\ applied \subseteq Commands
  BY <1>1 DEF GmailInv, RequestIsCall, AppliedIsAnswered, RowInv, TypeOK
<1>3. /\ request'[c].state = "inflight" /\ calls'[c] = 1
      /\ \A x \in Commands \ {c} : request'[x] = request[x] /\ calls'[x] = calls[x]
      /\ UNCHANGED <<cmd, gmail, applied>>
  BY <1>1 DEF CallProvider, RowInv, TypeOK
<1> QED BY <1>1, <1>2, <1>3
        DEF GmailInv, RequestIsCall, AppliedIsAnswered, AnswerIsEvident, CopyHasCreate, SingleDelivery

\* An accepted create is the first of its draft; an accepted send moves the copy.
LEMMA AcceptKeepsGmailInv ==
  ASSUME RowInv, OwnInv, GmailInv, NEW c \in Commands, GmailAccepts(c)
  PROVE  GmailInv'
<1> DEFINE d == cmd[c].draft
<1>1. cmd[c].status # "none" /\ d \in Drafts /\ cmd[c].type \in Types /\ applied \subseteq Commands
  BY AppliedExists DEF GmailAccepts, RowInv, TypeOK
<1>2. /\ gmail[d] \in [copies : Nat, version : Nat, sent : Nat]
      /\ gmail'[d] = ApplyMutation(c)
      /\ \A e \in Drafts \ {d} : gmail'[e] = gmail[e]
  BY <1>1 DEF GmailAccepts, RowInv, TypeOK
<1>3. /\ request'[c].state \in {"ok", "error"} /\ request'[c].version = gmail'[d].version
      /\ \A x \in Commands \ {c} : request'[x] = request[x]
      /\ applied' = applied \cup {c} /\ UNCHANGED <<cmd, calls>>
  BY <1>1 DEF GmailAccepts, RowInv, TypeOK
<1>4. c \notin applied
  BY DEF GmailAccepts, GmailInv, AppliedIsAnswered
<1>5. cmd[c].type = "create" => gmail[d].copies = 0 /\ gmail[d].sent = 0
  <2> SUFFICES ASSUME cmd[c].type = "create", gmail[d].copies + gmail[d].sent > 0
               PROVE  FALSE
    BY <1>2
  <2>1. PICK b \in applied : cmd[b].type = "create" /\ cmd[b].draft = d
    BY <1>1 DEF GmailInv, CopyHasCreate
  <2>2. b \in Commands /\ cmd[b].status # "none"
    BY <1>1, <2>1, AppliedExists
  <2>3. b = c
    BY <1>1, <2>1, <2>2 DEF OwnInv, NoDuplicateMutation
  <2> QED BY <1>4, <2>1, <2>3
<1>6. cmd[c].type # "create" => gmail[d].copies > 0
  BY DEF GmailAccepts, CanApply
<1>7. /\ gmail'[d].copies + gmail'[d].sent <= 1
      /\ gmail'[d].version > 0
      /\ gmail'[d].sent >= gmail[d].sent
      /\ cmd[c].type = "send" => gmail'[d].sent > 0
      /\ cmd[c].type # "create" => gmail[d].copies + gmail[d].sent > 0
  <2>1. gmail[d].copies > 0 => gmail[d].version > 0
    BY <1>1, <1>2 DEF GmailInv, CopyHasCreate
  <2>2. gmail[d].copies + gmail[d].sent <= 1
    BY <1>1 DEF GmailInv, SingleDelivery
  <2>3. CASE cmd[c].type = "create"
    <3>1. gmail'[d] = [gmail[d] EXCEPT !.copies = @ + 1, !.version = @ + 1]
      BY <1>2, <2>3 DEF ApplyMutation
    <3>2. /\ gmail'[d].copies = gmail[d].copies + 1 /\ gmail'[d].sent = gmail[d].sent
          /\ gmail'[d].version = gmail[d].version + 1
      BY <1>2, <3>1
    <3> QED BY <1>2, <1>5, <2>3, <3>2
  <2>4. CASE cmd[c].type = "update"
    BY <1>2, <1>6, <2>1, <2>2, <2>4 DEF ApplyMutation
  <2>5. CASE cmd[c].type = "send"
    <3>1. gmail'[d] = [gmail[d] EXCEPT !.copies = @ - 1, !.sent = @ + 1]
      BY <1>2, <2>5 DEF ApplyMutation
    <3>2. /\ gmail'[d].copies = gmail[d].copies - 1 /\ gmail'[d].sent = gmail[d].sent + 1
          /\ gmail'[d].version = gmail[d].version
      BY <1>2, <3>1
    <3> QED BY <1>2, <1>6, <2>1, <2>2, <2>5, <3>2
  <2> QED BY <1>1, <2>3, <2>4, <2>5 DEF Types
<1>8. RequestIsCall'
  BY <1>3 DEF GmailInv, RequestIsCall, GmailAccepts
<1>9. AppliedIsAnswered'
  BY <1>1, <1>3 DEF GmailInv, AppliedIsAnswered
<1>10. AnswerIsEvident'
  <2> SUFFICES ASSUME NEW x \in Commands, request'[x].state = "ok"
               PROVE  /\ x \in applied' /\ request'[x].version > 0
                      /\ cmd[x].type = "send" => gmail'[cmd[x].draft].sent > 0
    BY <1>3 DEF AnswerIsEvident
  <2>1. CASE x = c
    BY <1>3, <1>7, <2>1
  <2>2. CASE x # c
    <3>1. /\ x \in applied /\ request[x].version > 0
          /\ cmd[x].type = "send" => gmail[cmd[x].draft].sent > 0
      BY <1>3, <2>2 DEF GmailInv, AnswerIsEvident
    <3>2. cmd[x].draft \in Drafts
      BY <3>1, AppliedExists
    <3>3. cmd[x].type = "send" => gmail'[cmd[x].draft].sent > 0
      <4>1. CASE cmd[x].draft = d
        <5>1. gmail[d].sent \in Nat /\ gmail'[d].sent \in Int
          BY <1>1, <1>2 DEF ApplyMutation, Types
        <5> QED BY <1>7, <3>1, <4>1, <5>1
      <4>2. CASE cmd[x].draft # d
        BY <1>2, <3>1, <3>2, <4>2
      <4> QED BY <4>1, <4>2
    <3> QED BY <1>3, <2>2, <3>1, <3>3
  <2> QED BY <2>1, <2>2
<1>11. CopyHasCreate'
  <2> SUFFICES ASSUME NEW e \in Drafts, gmail'[e].copies + gmail'[e].sent > 0
               PROVE  /\ gmail'[e].version > 0
                      /\ \E x \in applied' : cmd[x].type = "create" /\ cmd[x].draft = e
    BY <1>3 DEF CopyHasCreate
  <2>1. CASE e # d
    BY <1>2, <1>3, <2>1 DEF GmailInv, CopyHasCreate
  <2>2. CASE e = d /\ cmd[c].type = "create"
    BY <1>3, <1>7, <2>2
  <2>3. CASE e = d /\ cmd[c].type # "create"
    BY <1>1, <1>3, <1>7, <2>3 DEF GmailInv, CopyHasCreate
  <2> QED BY <2>1, <2>2, <2>3
<1>12. SingleDelivery'
  BY <1>2, <1>7 DEF GmailInv, SingleDelivery
<1> QED BY <1>8, <1>9, <1>10, <1>11, <1>12 DEF GmailInv

\* Refusals, and what the user does in Gmail, keep the invariant.
LEMMA OthersKeepGmailInv ==
  ASSUME RowInv, GmailInv,
         \/ \E c \in Commands : GmailRefuses(c)
         \/ \E d \in Drafts : GmailUserEdits(d) \/ GmailUserDeletes(d) \/ GmailUserSends(d)
  PROVE  GmailInv'
<1>0. gmail \in [Drafts -> [copies : Nat, version : Nat, sent : Nat]] /\ applied \subseteq Commands
  BY DEF RowInv, TypeOK
<1>1. ASSUME NEW c \in Commands, GmailRefuses(c) PROVE GmailInv'
  <2>1. /\ request'[c].state = "error"
        /\ \A x \in Commands \ {c} : request'[x] = request[x]
        /\ UNCHANGED <<cmd, gmail, calls, applied>>
    BY <1>1 DEF GmailRefuses, RowInv, TypeOK
  <2>2. calls[c] # 0
    BY <1>1 DEF GmailRefuses, GmailInv, RequestIsCall
  <2> QED BY <1>0, <2>1, <2>2
          DEF GmailInv, RequestIsCall, AppliedIsAnswered, AnswerIsEvident, CopyHasCreate, SingleDelivery
<1>2. ASSUME NEW d \in Drafts, GmailUserEdits(d) \/ GmailUserDeletes(d) \/ GmailUserSends(d)
      PROVE  GmailInv'
  <2>1. /\ gmail[d].copies > 0
        /\ gmail'[d].copies + gmail'[d].sent <= gmail[d].copies + gmail[d].sent
        /\ gmail'[d].sent >= gmail[d].sent
        /\ gmail'[d].version >= gmail[d].version
        /\ gmail[d].copies \in Nat /\ gmail[d].sent \in Nat /\ gmail[d].version \in Nat
        /\ gmail'[d].copies \in Int /\ gmail'[d].sent \in Int /\ gmail'[d].version \in Int
        /\ \A e \in Drafts \ {d} : gmail'[e] = gmail[e]
        /\ UNCHANGED <<cmd, request, calls, applied>>
    BY <1>0, <1>2 DEF GmailUserEdits, GmailUserDeletes, GmailUserSends
  <2>2. RequestIsCall' /\ AppliedIsAnswered'
    BY <2>1 DEF GmailInv, RequestIsCall, AppliedIsAnswered
  <2>3. \A e \in Drafts : gmail[e].sent > 0 => gmail'[e].sent > 0
    BY <2>1
  <2>4. AnswerIsEvident'
    <3>1. \A x \in Commands : request[x].state = "ok" => cmd[x].draft \in Drafts
      BY AppliedExists
    <3> QED BY <2>1, <2>3, <3>1 DEF GmailInv, AnswerIsEvident
  <2>5. CopyHasCreate'
    <3> SUFFICES ASSUME NEW e \in Drafts, gmail'[e].copies + gmail'[e].sent > 0
                 PROVE  /\ gmail'[e].version > 0
                        /\ \E x \in applied : cmd[x].type = "create" /\ cmd[x].draft = e
      BY <2>1 DEF CopyHasCreate
    <3>1. gmail[e].copies + gmail[e].sent > 0
      BY <2>1
    <3>2. /\ gmail[e].version > 0
          /\ \E x \in applied : cmd[x].type = "create" /\ cmd[x].draft = e
      BY <3>1 DEF GmailInv, CopyHasCreate
    <3>3. gmail'[e].version > 0
      BY <2>1, <3>2
    <3> QED BY <3>2, <3>3
  <2>6. SingleDelivery'
    BY <2>1 DEF GmailInv, SingleDelivery
  <2> QED BY <2>2, <2>4, <2>5, <2>6 DEF GmailInv
<1> QED BY <1>1, <1>2

\* Gmail's side keeps its invariant in every step.
LEMMA GmailInvNext == RowInv /\ CallInv /\ OwnInv /\ GmailInv /\ [Next]_vars => GmailInv'
<1> SUFFICES ASSUME RowInv, CallInv, OwnInv, GmailInv, [Next]_vars PROVE GmailInv'
  OBVIOUS
<1>1. CASE UNCHANGED <<gmail, request, calls, applied>>
  BY <1>1, StableNext, QuietKeepsGmailInv
<1>2. CASE Gmail
  BY <1>2, AcceptKeepsGmailInv, OthersKeepGmailInv DEF Gmail
<1>3. ASSUME NEW w \in Workers, CallProvider(w) PROVE GmailInv'
  BY <1>3, CallKeepsGmailInv
<1>4. CASE UNCHANGED vars \/ UserRequests \/ Passage \/ Maintenance
  BY <1>1, <1>4 DEF vars, UserRequests, CreateDraft, UpdateDraft, SendDraft, Passage, LeaseExpires,
     BackoffElapses, Maintenance, RecoverExpiredLeases, RepairInconsistentDraftStates
<1>5. ASSUME NEW w \in Workers,
             \/ \E c \in Commands : ClaimCommand(w, c) \/ ClaimRecovery(w, c)
             \/ LoadDraft(w) \/ PreflightGetDraft(w) \/ CompleteConflict(w)
             \/ MarkProviderExecutionStarted(w) \/ CompleteConfirmed(w)
             \/ CatchBeforeMarker(w) \/ CatchAfterMarker(w) \/ VerificationStep(w) \/ Abandon(w)
      PROVE  GmailInv'
  <2>1. UNCHANGED <<gmail, request, calls, applied>>
    BY <1>5 DEF ClaimCommand, ClaimRecovery, LoadDraft, PreflightGetDraft, CompleteConflict,
       MarkProviderExecutionStarted, CompleteConfirmed, CatchBeforeMarker, CatchAfterMarker,
       VerificationStep, SearchByMessageId, CompleteRecovered, ReleaseRecoveryClaim, Abandon
  <2> QED BY <1>1, <2>1
<1> QED BY <1>2, <1>3, <1>4, <1>5 DEF Next, WorkerStep, ExecutionStep

\* It holds throughout, with the invariants it rests on.
LEMMA GmailSide == Spec => [](RowInv /\ CallInv /\ OwnInv /\ GmailInv)
<1>1. Init => GmailInv
  BY GmailInvInit
<1>2. RowInv /\ CallInv /\ OwnInv /\ GmailInv /\ [Next]_vars => GmailInv'
  BY GmailInvNext
<1> QED BY <1>1, <1>2, Safety, Ownership, PTL DEF Spec

\* The recipients never get a second copy: a draft exists once, as a Draft
\* resource or as a Sent message.
THEOREM OneCopy == Spec => []SingleDelivery
<1>1. RowInv /\ CallInv /\ OwnInv /\ GmailInv => SingleDelivery
  BY DEF GmailInv
<1> QED BY <1>1, GmailSide, PTL

------------------------------------------------------------------------------
(* The projection's side.  What it shows as confirmed, Gmail has done.          *)

\* What a verification is about to record did happen.
FoundIsEvident ==
  \A w \in Workers : work[w].pc = "found" =>
    LET c == work[w].cmd IN
    /\ cmd[c].type \in {"create", "send"}
    /\ cmd[c].type = "create" => c \in applied /\ work[w].version > 0
    /\ cmd[c].type = "send" => gmail[cmd[c].draft].sent > 0

\* A ready draft is confirmed at its revision and has its Draft in Gmail.
ReadyIsConfirmed ==
  \A d \in Drafts : draft[d].status = "ready" =>
    draft[d].confirmed = draft[d].revision /\ draft[d].provider # 0

\* The invariant of confirmations.
OutcomeInv == FoundIsEvident /\ ReadyIsConfirmed /\ ConfirmedByGmail

\* Nothing is confirmed at first.
LEMMA OutcomeInvInit == Init => OutcomeInv
BY DEF Init, NoRow, Idle, OutcomeInv, FoundIsEvident, ReadyIsConfirmed, ConfirmedByGmail

\* Evidence in Gmail is never taken back.
Evidence ==
  /\ applied \subseteq applied'
  /\ \A d \in Drafts : gmail[d].sent > 0 => gmail'[d].sent > 0

\* Evidence is never withdrawn: Gmail keeps Sent messages.
LEMMA EvidenceStays == RowInv /\ [Next]_vars => Evidence
<1> SUFFICES ASSUME RowInv, [Next]_vars PROVE Evidence
  OBVIOUS
<1>0. gmail \in [Drafts -> [copies : Nat, version : Nat, sent : Nat]]
      /\ \A c \in Commands : request[c].state # "none" =>
           cmd[c].draft \in Drafts /\ cmd[c].type \in Types
  BY DEF RowInv, RowsOK, TypeOK
<1>1. CASE UNCHANGED <<gmail, applied>>
  BY <1>1 DEF Evidence
<1>2. ASSUME NEW c \in Commands, GmailAccepts(c) PROVE Evidence
  <2> DEFINE d == cmd[c].draft
  <2>1. /\ d \in Drafts /\ cmd[c].type \in Types /\ gmail'[d] = ApplyMutation(c)
        /\ \A e \in Drafts \ {d} : gmail'[e] = gmail[e]
        /\ applied \subseteq applied'
    BY <1>0, <1>2 DEF GmailAccepts
  <2>2. gmail'[d].sent = IF cmd[c].type = "send" THEN gmail[d].sent + 1 ELSE gmail[d].sent
    <3>1. gmail[d] \in [copies : Nat, version : Nat, sent : Nat]
      BY <1>0, <2>1
    <3>2. CASE cmd[c].type = "create"
      <4>1. gmail'[d] = [gmail[d] EXCEPT !.copies = @ + 1, !.version = @ + 1]
        BY <2>1, <3>2 DEF ApplyMutation
      <4> QED BY <3>1, <3>2, <4>1
    <3>3. CASE cmd[c].type = "update"
      <4>1. gmail'[d] = [gmail[d] EXCEPT !.version = @ + 1]
        BY <2>1, <3>3 DEF ApplyMutation
      <4> QED BY <3>1, <3>3, <4>1
    <3>4. CASE cmd[c].type = "send"
      <4>1. gmail'[d] = [gmail[d] EXCEPT !.copies = @ - 1, !.sent = @ + 1]
        BY <2>1, <3>4 DEF ApplyMutation
      <4> QED BY <3>1, <3>4, <4>1
    <3> QED BY <2>1, <3>2, <3>3, <3>4 DEF Types
  <2> QED BY <1>0, <2>1, <2>2 DEF Evidence
<1>3. CASE Gmail
  <2>1. ASSUME NEW c \in Commands, GmailRefuses(c) PROVE Evidence
    BY <1>1, <2>1 DEF GmailRefuses
  <2>2. ASSUME NEW d \in Drafts, GmailUserEdits(d) \/ GmailUserDeletes(d) \/ GmailUserSends(d)
        PROVE  Evidence
    <3>1. /\ gmail[d] \in [copies : Nat, version : Nat, sent : Nat]
          /\ applied' = applied /\ \A e \in Drafts \ {d} : gmail'[e] = gmail[e]
      BY <1>0, <2>2 DEF GmailUserEdits, GmailUserDeletes, GmailUserSends
    <3>2. gmail'[d].sent \in {gmail[d].sent, gmail[d].sent + 1}
      BY <1>0, <2>2 DEF GmailUserEdits, GmailUserDeletes, GmailUserSends
    <3> QED BY <3>1, <3>2 DEF Evidence
  <2> QED BY <1>2, <1>3, <2>1, <2>2 DEF Gmail
<1>4. CASE UNCHANGED vars \/ UserRequests \/ Passage \/ Maintenance
  BY <1>1, <1>4 DEF vars, UserRequests, CreateDraft, UpdateDraft, SendDraft, Passage, LeaseExpires,
     BackoffElapses, Maintenance, RecoverExpiredLeases, RepairInconsistentDraftStates
<1>5. CASE WorkerStep
  BY <1>1, <1>5 DEF WorkerStep, ClaimCommand, ClaimRecovery, ExecutionStep, LoadDraft,
     PreflightGetDraft, CompleteConflict, MarkProviderExecutionStarted, CallProvider,
     CompleteConfirmed, CatchBeforeMarker, CatchAfterMarker, VerificationStep, SearchByMessageId,
     CompleteRecovered, ReleaseRecoveryClaim, Abandon
<1> QED BY <1>3, <1>4, <1>5 DEF Next

\* A slot that has found something has just searched, or had found it before.
LEMMA FoundBySearch ==
  RowInv /\ [Next]_vars =>
    \A w \in Workers : work'[w].pc = "found" => work'[w] = work[w] \/ SearchByMessageId(w)
<1> SUFFICES ASSUME RowInv, [Next]_vars, NEW w \in Workers, work'[w].pc = "found"
             PROVE  work'[w] = work[w] \/ SearchByMessageId(w)
  OBVIOUS
<1>0. work \in [Workers -> Job]
  BY DEF RowInv, TypeOK
<1>1. CASE work' = work
  BY <1>1
<1>2. CASE UNCHANGED vars \/ UserRequests \/ Passage \/ Maintenance \/ Gmail
  BY <1>1, <1>2 DEF vars, UserRequests, CreateDraft, UpdateDraft, SendDraft, Passage, LeaseExpires,
     BackoffElapses, Maintenance, RecoverExpiredLeases, RepairInconsistentDraftStates, Gmail,
     GmailAccepts, GmailRefuses, GmailUserEdits, GmailUserDeletes, GmailUserSends
<1>3. ASSUME NEW v \in Workers, v # w,
             \/ \E c \in Commands : ClaimCommand(v, c) \/ ClaimRecovery(v, c)
             \/ ExecutionStep(v) \/ VerificationStep(v) \/ Abandon(v)
      PROVE  work'[w] = work[w]
  BY <1>0, <1>3 DEF ClaimCommand, ClaimRecovery, ExecutionStep, LoadDraft, PreflightGetDraft,
     CompleteConflict, MarkProviderExecutionStarted, CallProvider, CompleteConfirmed,
     CatchBeforeMarker, CatchAfterMarker, VerificationStep, SearchByMessageId, CompleteRecovered,
     ReleaseRecoveryClaim, Abandon, SetWork, Finish
<1>4. CASE \E c \in Commands : ClaimCommand(w, c) \/ ClaimRecovery(w, c)
  BY <1>0, <1>4 DEF ClaimCommand, ClaimRecovery
<1>5. CASE LoadDraft(w) \/ PreflightGetDraft(w) \/ MarkProviderExecutionStarted(w) \/ CallProvider(w)
  <2>1. PICK pc \in {"loaded", "checked", "conflicted", "marked", "unseen", "calling"} :
          \E version : SetWork(w, pc, version)
    BY <1>5 DEF LoadDraft, PreflightGetDraft, MarkProviderExecutionStarted, CallProvider
  <2>2. work'[w].pc = pc
    BY <1>0, <2>1 DEF SetWork, Job
  <2> QED BY <2>2
<1>6. CASE \/ CompleteConflict(w) \/ CompleteConfirmed(w) \/ CatchBeforeMarker(w)
           \/ CatchAfterMarker(w) \/ CompleteRecovered(w) \/ ReleaseRecoveryClaim(w) \/ Abandon(w)
  <2>1. Finish(w)
    BY <1>6 DEF CompleteConflict, CompleteConfirmed, CatchBeforeMarker, CatchAfterMarker,
       CompleteRecovered, ReleaseRecoveryClaim, Abandon
  <2> QED BY <1>0, <2>1 DEF Finish, Idle
<1>7. CASE WorkerStep
  BY <1>3, <1>4, <1>5, <1>6, <1>7 DEF WorkerStep, ExecutionStep, VerificationStep
<1> QED BY <1>2, <1>7 DEF Next

\* A search that finds one resource has found what the command left in Gmail.
LEMMA SearchFinds ==
  ASSUME RowInv, OwnInv, GmailInv, NEW w \in Workers, SearchByMessageId(w)
  PROVE  LET c == work[w].cmd IN
         /\ work'[w].cmd = c /\ work'[w].version = gmail[cmd[c].draft].version
         /\ cmd[c].type \in {"create", "send"}
         /\ cmd[c].type = "create" => c \in applied /\ gmail[cmd[c].draft].version > 0
         /\ cmd[c].type = "send" => gmail[cmd[c].draft].sent > 0
<1> DEFINE c == work[w].cmd
<1> DEFINE d == cmd[c].draft
<1>1. /\ c \in Commands /\ cmd[c].status # "none" /\ d \in Drafts
      /\ work \in [Workers -> Job] /\ gmail[d] \in [copies : Nat, version : Nat, sent : Nat]
  BY DEF SearchByMessageId, RowInv, RowsOK, TypeOK
<1>2. work'[w].cmd = c /\ work'[w].version = gmail[d].version
  BY <1>1 DEF SearchByMessageId, SetWork, Job
<1>3. cmd[c].type \in {"create", "send"}
  BY DEF SearchByMessageId, Verifiable
<1>4. cmd[c].type = "send" => gmail[d].sent > 0
  BY <1>1 DEF SearchByMessageId, FoundOne
<1>5. CASE cmd[c].type = "create"
  <2>1. gmail[d].copies + gmail[d].sent > 0
    BY <1>1, <1>5 DEF SearchByMessageId, FoundOne
  <2>2. gmail[d].version > 0 /\ \E b \in applied : cmd[b].type = "create" /\ cmd[b].draft = d
    BY <1>1, <2>1 DEF GmailInv, CopyHasCreate
  <2>3. PICK b \in applied : cmd[b].type = "create" /\ cmd[b].draft = d
    BY <2>2
  <2>4. b \in Commands /\ cmd[b].status # "none"
    BY <2>3, AppliedExists DEF RowInv, TypeOK
  <2>5. b = c
    BY <1>1, <1>5, <2>3, <2>4 DEF OwnInv, NoDuplicateMutation
  <2> QED BY <1>2, <1>5, <2>2, <2>3, <2>5
<1> QED BY <1>2, <1>3, <1>4, <1>5

\* A verification that found its message keeps that right.
LEMMA FoundKept ==
  ASSUME RowInv, OwnInv, GmailInv, FoundIsEvident, [Next]_vars
  PROVE  FoundIsEvident'
<1> SUFFICES ASSUME NEW w \in Workers, work'[w].pc = "found"
             PROVE  LET c == work'[w].cmd IN
                    /\ cmd'[c].type \in {"create", "send"}
                    /\ cmd'[c].type = "create" => c \in applied' /\ work'[w].version > 0
                    /\ cmd'[c].type = "send" => gmail'[cmd'[c].draft].sent > 0
  BY DEF FoundIsEvident
<1> DEFINE c == work'[w].cmd
<1>1. /\ c = work[w].cmd /\ work[w].pc # "idle"
      /\ cmd[c].type \in {"create", "send"}
      /\ cmd[c].type = "create" => c \in applied /\ work'[w].version > 0
      /\ cmd[c].type = "send" => gmail[cmd[c].draft].sent > 0
  <2>1. CASE work'[w] = work[w]
    BY <2>1 DEF FoundIsEvident
  <2>2. CASE SearchByMessageId(w)
    BY <2>2, SearchFinds DEF SearchByMessageId
  <2> QED BY <2>1, <2>2, FoundBySearch
<1>2. c \in Commands /\ cmd[c].status # "none" /\ cmd[c].draft \in Drafts
  BY <1>1 DEF RowInv, RowsOK
<1>3. cmd'[c].type = cmd[c].type /\ cmd'[c].draft = cmd[c].draft
  BY <1>2, StableNext DEF Stable
<1> QED BY <1>1, <1>2, <1>3, EvidenceStays DEF Evidence

\* A step that confirms nothing.
Unconfirming ==
  /\ \A d \in Drafts : draft'[d].status \in {"ready", "sent"} => draft'[d] = draft[d]
  /\ \A c \in Commands : cmd'[c].status = "succeeded" => cmd[c].status = "succeeded"

\* Only a confirmation makes a draft ready or sent, and a command succeed.
LEMMA ConfirmedOnlyBy ==
  RowInv /\ [Next]_vars =>
    Unconfirming \/ \E w \in Workers : CompleteConfirmed(w) \/ CompleteRecovered(w)
<1> SUFFICES ASSUME RowInv, [Next]_vars,
                    ~ \E w \in Workers : CompleteConfirmed(w) \/ CompleteRecovered(w)
             PROVE  Unconfirming
  OBVIOUS
<1>0. TypeOK /\ cmd \in [Commands -> CommandRow] /\ draft \in [Drafts -> DraftRow]
      /\ \A w \in Workers : work[w].pc # "idle" =>
           work[w].cmd \in Commands /\ cmd[work[w].cmd].draft \in Drafts
  BY DEF RowInv, RowsOK, TypeOK
<1>1. CASE UNCHANGED <<draft, cmd>>
  BY <1>1 DEF Unconfirming
<1>2. CASE UNCHANGED vars \/ Gmail
  BY <1>1, <1>2 DEF vars, Gmail, GmailAccepts, GmailRefuses, GmailUserEdits, GmailUserDeletes,
     GmailUserSends
<1>3. ASSUME NEW d \in Drafts, NEW c \in Commands,
             CreateDraft(d, c) \/ UpdateDraft(d, c) \/ SendDraft(d, c)
      PROVE  Unconfirming
  <2>1. cmd'[c].status = "pending" /\ \A x \in Commands \ {c} : cmd'[x] = cmd[x]
    BY <1>0, <1>3 DEF CreateDraft, UpdateDraft, SendDraft, PendingCommand
  <2>2. draft'[d].status \in {"creating", "updating", "sending"}
        /\ \A e \in Drafts \ {d} : draft'[e] = draft[e]
    BY <1>0, <1>3 DEF CreateDraft, UpdateDraft, SendDraft, DraftRow
  <2> QED BY <2>1, <2>2 DEF Unconfirming
<1>4. ASSUME NEW w \in Workers, NEW c \in Commands, ClaimCommand(w, c) \/ ClaimRecovery(w, c)
      PROVE  Unconfirming
  BY <1>0, <1>4 DEF ClaimCommand, ClaimRecovery, Unconfirming, CommandRow
<1>5. ASSUME NEW w \in Workers,
             LoadDraft(w) \/ PreflightGetDraft(w) \/ CallProvider(w) \/ SearchByMessageId(w)
             \/ Abandon(w)
      PROVE  Unconfirming
  BY <1>1, <1>5 DEF LoadDraft, PreflightGetDraft, CallProvider, SearchByMessageId, Abandon
<1>6. ASSUME NEW w \in Workers, MarkProviderExecutionStarted(w) \/ ReleaseRecoveryClaim(w)
      PROVE  Unconfirming
  BY <1>0, <1>6 DEF MarkProviderExecutionStarted, ReleaseRecoveryClaim, Unconfirming, CommandRow
<1>7. ASSUME NEW w \in Workers, CompleteConflict(w) PROVE Unconfirming
  <2>1. Ends(work[w].cmd, "failed")
    BY <1>0, <1>7, SettleEnds DEF CompleteConflict
  <2>2. draft'[cmd[work[w].cmd].draft].status = "conflict"
        /\ \A e \in Drafts \ {cmd[work[w].cmd].draft} : draft'[e] = draft[e]
    BY <1>0, <1>7, StatusWrite DEF CompleteConflict
  <2> QED BY <2>1, <2>2 DEF Unconfirming, Ends
<1>8. ASSUME NEW w \in Workers, CatchBeforeMarker(w) \/ CatchAfterMarker(w) PROVE Unconfirming
  <2> DEFINE d == cmd[work[w].cmd].draft
  <2>1. d \in Drafts /\ work[w].cmd \in Commands
    BY <1>0, <1>8 DEF CatchBeforeMarker, CatchAfterMarker
  <2>2. \E status \in {"failed", "retryable", "recovery_required"} : Ends(work[w].cmd, status)
    BY <1>0, <1>8, <2>1, CatchBeforeMarkerEnds, RequireRecoveryEnds DEF CatchAfterMarker
  <2>3. draft' = draft \/ RequireRecovery(work[w].cmd)
    BY <1>8 DEF CatchBeforeMarker, CatchAfterMarker, ScheduleRetry, ErrorsAt, ErrorClasses
  <2>4. draft' = draft \/ draft' = [draft EXCEPT ![d].status = "recovery_required"]
    BY <2>3 DEF RequireRecovery
  <2>5. \A e \in Drafts : draft'[e].status \in {"ready", "sent"} => draft'[e] = draft[e]
    BY <1>0, <2>1, <2>4, StatusWrite
  <2> QED BY <2>2, <2>5 DEF Unconfirming, Ends
<1>9. ASSUME NEW c \in Commands, LeaseExpires(c) \/ BackoffElapses(c) PROVE Unconfirming
  BY <1>0, <1>9 DEF LeaseExpires, BackoffElapses, Unconfirming, CommandRow
<1>10. ASSUME NEW S \in SUBSET Drafts,
              draft' = [d \in Drafts |-> IF d \in S THEN [draft[d] EXCEPT !.status = "recovery_required"]
                                         ELSE draft[d]]
       PROVE  \A d \in Drafts : draft'[d].status \in {"ready", "sent"} => draft'[d] = draft[d]
  BY <1>0, <1>10 DEF DraftRow
<1>11. CASE RecoverExpiredLeases
  <2> DEFINE S == {d \in Drafts : draft[d].status = "sending"
                     /\ \E c \in ExpiredCommands :
                          UncertainSend(c) /\ cmd[c].draft = d /\ draft[d].last = c}
  <2>1. draft' = [d \in Drafts |-> IF d \in S THEN [draft[d] EXCEPT !.status = "recovery_required"]
                                   ELSE draft[d]]
    BY <1>11 DEF RecoverExpiredLeases
  <2>2. \A d \in Drafts : draft'[d].status \in {"ready", "sent"} => draft'[d] = draft[d]
    BY <1>10, <2>1
  <2>3. \A c \in Commands : cmd'[c].status = "succeeded" => cmd[c].status = "succeeded"
    BY <1>0, <1>11, RecoveredRow
  <2> QED BY <2>2, <2>3 DEF Unconfirming
<1>12. CASE RepairInconsistentDraftStates
  <2>1. cmd' = cmd
    BY <1>12 DEF RepairInconsistentDraftStates
  <2>2. \A d \in Drafts : draft'[d].status \in {"ready", "sent"} => draft'[d] = draft[d]
    BY <1>10, <1>12 DEF RepairInconsistentDraftStates
  <2> QED BY <2>1, <2>2 DEF Unconfirming
<1> QED BY <1>2, <1>3, <1>4, <1>5, <1>6, <1>7, <1>8, <1>9, <1>11, <1>12
        DEF Next, UserRequests, WorkerStep, ExecutionStep, VerificationStep, Passage, Maintenance

\* A confirmation on evidence.
LEMMA ConfirmationIsEvident ==
  ASSUME RowInv, ReadyIsConfirmed, ConfirmedByGmail, NEW c \in Commands,
         cmd[c].type \in Types, cmd[c].draft \in Drafts,
         IF cmd[c].type = "send" THEN gmail[cmd[c].draft].sent > 0 ELSE c \in applied,
         NEW version \in Nat, cmd[c].type # "send" => version > 0,
         Succeed(c, version), UNCHANGED <<gmail, applied>>
  PROVE  ReadyIsConfirmed' /\ ConfirmedByGmail'
<1> DEFINE d == cmd[c].draft
<1> DEFINE row == draft[d]
<1>1. row \in DraftRow /\ draft'[d] = ConfirmedDraft(c, version)
      /\ \A e \in Drafts \ {d} : draft'[e] = draft[e]
  BY DEF RowInv, TypeOK, Succeed
<1>2. Ends(c, "succeeded")
  BY SucceedEnds DEF RowInv
<1>3. cmd[c].type = "send" => draft'[d].status = "sent"
  BY <1>1 DEF ConfirmedDraft, DraftRow
<1>4. cmd[c].type # "send" => /\ draft'[d].status = "ready" /\ draft'[d].provider = version
                              /\ draft'[d].confirmed = draft'[d].revision
  BY <1>1 DEF ConfirmedDraft, DraftRow
<1>5. ReadyIsConfirmed'
  BY <1>1, <1>3, <1>4 DEF ReadyIsConfirmed
<1>6. ConfirmedByGmail'
  BY <1>1, <1>2, <1>3, <1>4 DEF ConfirmedByGmail, Ends
<1> QED BY <1>5, <1>6

\* What is shown as confirmed stays so by evidence.
LEMMA OutcomeInvNext == RowInv /\ OwnInv /\ GmailInv /\ OutcomeInv /\ [Next]_vars => OutcomeInv'
<1> SUFFICES ASSUME RowInv, OwnInv, GmailInv, OutcomeInv, [Next]_vars PROVE OutcomeInv'
  OBVIOUS
<1>1. FoundIsEvident'
  BY FoundKept DEF OutcomeInv
<1>2. CASE Unconfirming
  <2>1. ReadyIsConfirmed'
    BY <1>2 DEF Unconfirming, OutcomeInv, ReadyIsConfirmed
  <2>2. \A d \in Drafts : draft'[d].status = "sent" => gmail'[d].sent > 0
    BY <1>2, EvidenceStays DEF Unconfirming, OutcomeInv, ConfirmedByGmail, Evidence
  <2>3. ASSUME NEW c \in Commands, cmd'[c].status = "succeeded"
        PROVE  IF cmd'[c].type = "send" THEN gmail'[cmd'[c].draft].sent > 0 ELSE c \in applied'
    <3>1. /\ cmd[c].status = "succeeded" /\ cmd[c].draft \in Drafts
          /\ cmd'[c].type = cmd[c].type /\ cmd'[c].draft = cmd[c].draft
      BY <1>2, <2>3, StableNext DEF Unconfirming, Stable, RowInv, RowsOK
    <3> QED BY <3>1, EvidenceStays DEF OutcomeInv, ConfirmedByGmail, Evidence
  <2> QED BY <1>1, <2>1, <2>2, <2>3 DEF OutcomeInv, ConfirmedByGmail
<1>3. ASSUME NEW w \in Workers, CompleteConfirmed(w) PROVE OutcomeInv'
  <2> DEFINE c == work[w].cmd
  <2>1. /\ c \in Commands /\ cmd[c].type \in Types /\ cmd[c].draft \in Drafts
        /\ request[c].version \in Nat
    BY <1>3 DEF CompleteConfirmed, RowInv, RowsOK, TypeOK
  <2>2. /\ c \in applied /\ request[c].version > 0
        /\ cmd[c].type = "send" => gmail[cmd[c].draft].sent > 0
    BY <1>3, <2>1 DEF CompleteConfirmed, GmailInv, AnswerIsEvident
  <2> QED BY <1>1, <1>3, <2>1, <2>2, ConfirmationIsEvident DEF CompleteConfirmed, OutcomeInv
<1>4. ASSUME NEW w \in Workers, CompleteRecovered(w) PROVE OutcomeInv'
  <2> DEFINE c == work[w].cmd
  <2>1. /\ c \in Commands /\ cmd[c].type \in Types /\ cmd[c].draft \in Drafts
        /\ work[w].version \in Nat
    BY <1>4 DEF CompleteRecovered, RowInv, RowsOK, TypeOK, Job
  <2>2. /\ cmd[c].type \in {"create", "send"}
        /\ cmd[c].type = "create" => c \in applied /\ work[w].version > 0
        /\ cmd[c].type = "send" => gmail[cmd[c].draft].sent > 0
    BY <1>4 DEF CompleteRecovered, OutcomeInv, FoundIsEvident
  <2> QED BY <1>1, <1>4, <2>1, <2>2, ConfirmationIsEvident DEF CompleteRecovered, OutcomeInv
<1> QED BY <1>2, <1>3, <1>4, ConfirmedOnlyBy

\* It holds throughout.
LEMMA Outcomes == Spec => [](RowInv /\ CallInv /\ OwnInv /\ GmailInv /\ OutcomeInv)
<1>1. Init => OutcomeInv
  BY OutcomeInvInit
<1>2. RowInv /\ OwnInv /\ GmailInv /\ OutcomeInv /\ [Next]_vars => OutcomeInv'
  BY OutcomeInvNext
<1> QED BY <1>1, <1>2, GmailSide, PTL DEF Spec

\* The projection never claims more than Gmail did: a sent draft is in Sent, and
\* what is reported as succeeded took effect.
THEOREM ClaimsAreEvident == Spec => []ConfirmedByGmail
<1>1. RowInv /\ CallInv /\ OwnInv /\ GmailInv /\ OutcomeInv => ConfirmedByGmail
  BY DEF OutcomeInv
<1> QED BY <1>1, Outcomes, PTL

\* A draft that is ready has a confirmed revision and a Gmail resource, no active
\* command and no request still on its way.
LEMMA ReadyQuiescence ==
  ASSUME RowInv, CallInv, OwnInv, GmailInv, OutcomeInv
  PROVE  ReadyIsQuiescent
<1> SUFFICES ASSUME NEW d \in Drafts, draft[d].status = "ready", NEW c \in Commands, cmd[c].draft = d
             PROVE  cmd[c].status \notin Active /\ request[c].state # "inflight"
  BY DEF OutcomeInv, ReadyIsConfirmed, ReadyIsQuiescent
<1>1. cmd[c].status \notin Active
  <2> SUFFICES ASSUME cmd[c].status \in Active PROVE FALSE
    OBVIOUS
  <2>1. cmd[c].type \in Types
    BY DEF RowInv, RowsOK, Active
  <2> QED BY <2>1 DEF OwnInv, ActiveCommandOwnsDraft, StatusFor, Types
<1>2. request[c].state # "inflight"
  <2> SUFFICES ASSUME request[c].state = "inflight" PROVE FALSE
    OBVIOUS
  <2>1. cmd[c].status # "none" /\ calls[c] # 0 /\ cmd[c].status # "failed"
    BY DEF RowInv, RowsOK, GmailInv, RequestIsCall, CallInv, FailedIsUncalled
  <2>2. cmd[c].status = "succeeded"
    BY <1>1, <2>1 DEF RowInv, TypeOK, CommandRow, Active
  <2>3. cmd[c].type # "send"
    BY <2>1 DEF OwnInv, SendsBlockDraft
  <2> QED BY <2>2, <2>3 DEF OutcomeInv, ConfirmedByGmail, GmailInv, AppliedIsAnswered
<1> QED BY <1>1, <1>2

\* A draft offered for editing or sending has nothing in flight that could overtake
\* the next mutation.
THEOREM ReadyMeansQuiescent == Spec => []ReadyIsQuiescent
<1>1. RowInv /\ CallInv /\ OwnInv /\ GmailInv /\ OutcomeInv => ReadyIsQuiescent
  BY ReadyQuiescence
<1> QED BY <1>1, Outcomes, PTL

------------------------------------------------------------------------------
(* The promise.  Each step of the drafts' rows, slots and Gmail is a step of      *)
(* MutationPromise, or none.                                                   *)

\* The stages of MutationPromise, as DraftPromise maps them.
Stage == [c \in Commands |-> StageOf(cmd[c].status)]

\* The mutations whose effect Gmail shows.
Evident == {c \in Commands : EffectEvident(c)}

\* A request of the user creates the command.
Requested(c) == \E d \in Drafts : CreateDraft(d, c) \/ UpdateDraft(d, c) \/ SendDraft(d, c)

\* A key that no request has used stands for nothing.
UnusedKeys == \A c \in Commands : cmd[c].status = "none" => cmd[c].type = "none"

\* Only a request gives a key its meaning.
LEMMA IdentityKept ==
  RowInv /\ [Next]_vars =>
    \A c \in Commands : \/ Requested(c)
                        \/ /\ cmd'[c].type = cmd[c].type /\ cmd'[c].draft = cmd[c].draft
                           /\ cmd[c].status = "none" => cmd'[c].status = "none"
<1> DEFINE Kept(c) == /\ cmd'[c].type = cmd[c].type /\ cmd'[c].draft = cmd[c].draft
                      /\ cmd[c].status = "none" => cmd'[c].status = "none"
<1> SUFFICES ASSUME RowInv, [Next]_vars, NEW c \in Commands PROVE Requested(c) \/ Kept(c)
  OBVIOUS
<1>0. TypeOK /\ cmd \in [Commands -> CommandRow]
      /\ \A w \in Workers : work[w].pc # "idle" =>
           work[w].cmd \in Commands /\ cmd[work[w].cmd].status # "none"
  BY DEF RowInv, RowsOK, TypeOK
<1>1. CASE cmd[c].status # "none"
  BY <1>1, StableNext DEF Stable
<1>2. CASE cmd[c].status = "none" /\ cmd'[c] = cmd[c]
  BY <1>2
<1>3. CASE cmd[c].status = "none" /\ (UNCHANGED vars \/ Gmail \/ RepairInconsistentDraftStates)
  BY <1>2, <1>3 DEF vars, Gmail, GmailAccepts, GmailRefuses, GmailUserEdits, GmailUserDeletes,
     GmailUserSends, RepairInconsistentDraftStates
<1>4. CASE cmd[c].status = "none" /\ UserRequests
  <2>1. PICK d \in Drafts, x \in Commands : CreateDraft(d, x) \/ UpdateDraft(d, x) \/ SendDraft(d, x)
    BY <1>4 DEF UserRequests
  <2>2. x # c => cmd'[c] = cmd[c]
    BY <1>0, <2>1 DEF CreateDraft, UpdateDraft, SendDraft
  <2> QED BY <2>1, <2>2 DEF Requested
<1>5. ASSUME cmd[c].status = "none", NEW w \in Workers, NEW x \in Commands,
             ClaimCommand(w, x) \/ ClaimRecovery(w, x)
      PROVE  Kept(c)
  BY <1>0, <1>5 DEF ClaimCommand, ClaimRecovery
<1>6. ASSUME cmd[c].status = "none", NEW w \in Workers,
             LoadDraft(w) \/ PreflightGetDraft(w) \/ CallProvider(w) \/ SearchByMessageId(w)
             \/ Abandon(w)
      PROVE  Kept(c)
  BY <1>6 DEF LoadDraft, PreflightGetDraft, CallProvider, SearchByMessageId, Abandon
<1>7. ASSUME cmd[c].status = "none", NEW w \in Workers,
             \/ MarkProviderExecutionStarted(w) \/ ReleaseRecoveryClaim(w) \/ CompleteConflict(w)
             \/ CompleteConfirmed(w) \/ CompleteRecovered(w) \/ CatchAfterMarker(w)
      PROVE  Kept(c)
  <2>1. work[w].cmd \in Commands /\ work[w].cmd # c
    BY <1>0, <1>7 DEF MarkProviderExecutionStarted, ReleaseRecoveryClaim, CompleteConflict,
       CompleteConfirmed, CompleteRecovered, CatchAfterMarker
  <2>2. CASE MarkProviderExecutionStarted(w) \/ ReleaseRecoveryClaim(w)
    BY <1>0, <2>1, <2>2 DEF MarkProviderExecutionStarted, ReleaseRecoveryClaim
  <2>3. CASE \E status : Settle(work[w].cmd, status)
    BY <1>0, <2>1, <2>3 DEF Settle
  <2> QED BY <1>7, <2>2, <2>3 DEF CompleteConflict, CompleteConfirmed, CompleteRecovered,
          CatchAfterMarker, Succeed, RequireRecovery
<1>8. ASSUME cmd[c].status = "none", NEW w \in Workers, CatchBeforeMarker(w) PROVE Kept(c)
  <2>1. work[w].cmd # c
    BY <1>0, <1>8 DEF CatchBeforeMarker
  <2> QED BY <1>8, <2>1, CatchBeforeMarkerEnds DEF Ends
<1>9. ASSUME cmd[c].status = "none", NEW x \in Commands, LeaseExpires(x) \/ BackoffElapses(x)
      PROVE  Kept(c)
  BY <1>0, <1>9 DEF LeaseExpires, BackoffElapses, CommandRow
<1>10. CASE cmd[c].status = "none" /\ RecoverExpiredLeases
  BY <1>0, <1>10, RecoveredRow DEF ExpiredCommands
<1> QED BY <1>1, <1>3, <1>4, <1>5, <1>6, <1>7, <1>8, <1>9, <1>10
        DEF Next, WorkerStep, ExecutionStep, VerificationStep, Passage, Maintenance

\* A key that is still unused stands for nothing.
LEMMA UnusedKeysNext == RowInv /\ UnusedKeys /\ [Next]_vars => UnusedKeys'
<1> SUFFICES ASSUME RowInv, UnusedKeys, [Next]_vars, NEW c \in Commands, cmd'[c].status = "none"
             PROVE  cmd'[c].type = "none"
  BY DEF UnusedKeys
<1>1. cmd[c].status = "none"
  BY StableNext DEF Stable
<1>2. ~Requested(c)
  <2> SUFFICES ASSUME NEW d \in Drafts, CreateDraft(d, c) \/ UpdateDraft(d, c) \/ SendDraft(d, c)
               PROVE  FALSE
    BY DEF Requested
  <2>1. \E r : \E type \in Types : cmd' = [cmd EXCEPT ![c] = PendingCommand(type, d, r)]
    BY DEF CreateDraft, UpdateDraft, SendDraft, Types
  <2>2. cmd'[c].status = "pending"
    BY <2>1 DEF PendingCommand, RowInv, TypeOK
  <2> QED BY <2>2
<1> QED BY <1>1, <1>2, IdentityKept DEF UnusedKeys

\* Everything the simulation of a step needs.
PromiseInv == RowInv /\ CallInv /\ OwnInv /\ GmailInv /\ OutcomeInv /\ UnusedKeys

\* A step that MutationPromise allows.
PromiseStep == [Promise!Next]_(Promise!vars)

\* What a step changes of a mutation's stage, when one command's row changes.
LEMMA StageChange ==
  ASSUME NEW c \in Commands, \A x \in Commands \ {c} : cmd'[x].status = cmd[x].status
  PROVE  Stage' = [Stage EXCEPT ![c] = StageOf(cmd'[c].status)]
BY DEF Stage

\* A step that moves no command from one stage to another.
LEMMA StageSame ==
  ASSUME \A x \in Commands : StageOf(cmd'[x].status) = StageOf(cmd[x].status)
  PROVE  Stage' = Stage
BY DEF Stage

\* Evidence changes with Gmail and with what keys stand for.
LEMMA EvidentSame ==
  ASSUME UNCHANGED <<gmail, applied>>,
         \A x \in Commands : cmd'[x].type = cmd[x].type /\ cmd'[x].draft = cmd[x].draft
  PROVE  Evident' = Evident
BY DEF Evident, EffectEvident

\* A step that Promise does not see.
LEMMA Stutters ==
  ASSUME Stage' = Stage, calls' = calls, Evident' = Evident
  PROVE  PromiseStep
BY DEF PromiseStep, Promise!vars, Stage, Evident

\* A step of one mutation.
LEMMA MutationMoves ==
  ASSUME NEW c \in Commands,
         \/ Promise!Request(c) \/ Promise!Call(c) \/ Promise!BecomeEvident(c)
         \/ Promise!Fail(c) \/ Promise!Succeed(c)
  PROVE  PromiseStep
BY DEF PromiseStep, Promise!Next

\* A command that stands for something has been requested.
LEMMA StageOpen ==
  ASSUME RowInv, NEW c \in Commands, cmd[c].status # "none"
  PROVE  Stage[c] = StageOf(cmd[c].status) /\ Stage[c] # "none"
BY DEF RowInv, TypeOK, CommandRow, Stage, StageOf, Active

\* A request opens its mutation.
LEMMA RequestPromised ==
  ASSUME PromiseInv, [Next]_vars, NEW c \in Commands, Requested(c)
  PROVE  PromiseStep
<1>1. PICK d \in Drafts : CreateDraft(d, c) \/ UpdateDraft(d, c) \/ SendDraft(d, c)
  BY DEF Requested
<1>2. /\ cmd[c].status = "none"
      /\ \E r : \E type \in Types : cmd' = [cmd EXCEPT ![c] = PendingCommand(type, d, r)]
      /\ UNCHANGED <<gmail, request, calls, applied>>
  BY <1>1 DEF CreateDraft, UpdateDraft, SendDraft, NewKey, Types
<1>3. /\ cmd'[c].status = "pending" /\ \A x \in Commands \ {c} : cmd'[x] = cmd[x]
  BY <1>2 DEF PendingCommand, PromiseInv, RowInv, TypeOK
<1>4. Stage' = [Stage EXCEPT ![c] = "open"] /\ Stage[c] = "none"
  BY <1>2, <1>3, StageChange DEF StageOf, Stage
<1>5. c \notin Evident
  BY <1>2, AppliedExists DEF PromiseInv, UnusedKeys, Evident, EffectEvident
<1>6. \A x \in Commands \ {c} : x \in Evident' <=> x \in Evident
  BY <1>2, <1>3 DEF Evident, EffectEvident
<1>7. Evident' = Evident \/ Evident' = Evident \cup {c}
  <2>1. Evident \subseteq Commands /\ Evident' \subseteq Commands
    BY DEF Evident
  <2>2. CASE c \in Evident'
    BY <1>5, <1>6, <2>1, <2>2
  <2>3. CASE c \notin Evident'
    BY <1>5, <1>6, <2>1, <2>3
  <2> QED BY <2>2, <2>3
<1>8. Promise!Request(c)
  BY <1>2, <1>4, <1>7 DEF Promise!Request, Stage, Evident
<1> QED BY <1>8, MutationMoves

\* A call is promised once, to a mutation that has not failed.
LEMMA CallPromised ==
  ASSUME PromiseInv, NEW w \in Workers, CallProvider(w)
  PROVE  PromiseStep
<1> DEFINE c == work[w].cmd
<1>1. /\ c \in Commands /\ cmd[c].status # "none" /\ calls[c] = 0 /\ calls \in [Commands -> Nat]
      /\ cmd[c].status # "failed"
  BY DEF CallProvider, PromiseInv, RowInv, RowsOK, TypeOK, CallInv, SlotsRespectMarker, FailedIsUncalled
<1>2. Stage[c] \in {"open", "doubtful", "succeeded"}
  BY <1>1 DEF Stage, StageOf, PromiseInv, RowInv, TypeOK, CommandRow, Active
<1>3. Stage' = Stage /\ Evident' = Evident /\ calls' = [calls EXCEPT ![c] = 1]
  BY <1>1, StageSame, EvidentSame DEF CallProvider
<1>4. Promise!Call(c)
  BY <1>1, <1>2, <1>3 DEF Promise!Call, Stage, Evident
<1> QED BY <1>1, <1>4, MutationMoves

\* The only command that a Sent message of a draft can speak for.
LEMMA SendIsUnique ==
  ASSUME PromiseInv, NEW b \in Commands, NEW c \in Commands,
         cmd[b].type = "send", cmd[c].type = "send", cmd[b].draft = cmd[c].draft
  PROVE  b = c
BY DEF PromiseInv, UnusedKeys, OwnInv, NoDuplicateMutation

\* Evidence moves with the Sent messages of one draft and with one acceptance.
LEMMA GmailPromised ==
  ASSUME PromiseInv, Gmail
  PROVE  PromiseStep
<1>0. /\ gmail \in [Drafts -> [copies : Nat, version : Nat, sent : Nat]] /\ RowInv
      /\ \A x \in Commands : cmd[x].type # "none" => cmd[x].draft \in Drafts /\ cmd[x].status # "none"
  BY DEF PromiseInv, RowInv, RowsOK, TypeOK, UnusedKeys
<1>1. cmd' = cmd /\ calls' = calls /\ Stage' = Stage
  BY StageSame DEF Gmail, GmailAccepts, GmailRefuses, GmailUserEdits, GmailUserDeletes, GmailUserSends
<1>2. ASSUME applied' = applied, \A d \in Drafts : gmail'[d].sent = gmail[d].sent
      PROVE  PromiseStep
  <2>1. Evident' = Evident
    BY <1>0, <1>1, <1>2 DEF Evident, EffectEvident
  <2> QED BY <1>1, <2>1, Stutters
<1>3. ASSUME NEW c \in Commands, cmd[c].status # "none", Evident' = Evident \cup {c}
      PROVE  PromiseStep
  <2>1. Promise!BecomeEvident(c)
    BY <1>0, <1>1, <1>3, StageOpen DEF Promise!BecomeEvident, Stage, Evident
  <2> QED BY <2>1, MutationMoves
<1>4. ASSUME NEW c \in Commands, GmailAccepts(c) PROVE PromiseStep
  <2> DEFINE d == cmd[c].draft
  <2>1. d \in Drafts /\ cmd[c].type \in Types /\ cmd[c].status # "none"
    BY <1>4, AppliedExists DEF PromiseInv, GmailAccepts
  <2>2. /\ applied' = applied \cup {c} /\ gmail'[d] = ApplyMutation(c)
        /\ \A e \in Drafts \ {d} : gmail'[e] = gmail[e]
    BY <1>0, <1>4, <2>1 DEF GmailAccepts
  <2>3. cmd[c].type # "send" => gmail'[d].sent = gmail[d].sent
    <3>1. CASE cmd[c].type = "create"
      <4>1. gmail'[d] = [gmail[d] EXCEPT !.copies = @ + 1, !.version = @ + 1]
        BY <2>2, <3>1 DEF ApplyMutation
      <4> QED BY <1>0, <2>1, <4>1
    <3>2. CASE cmd[c].type = "update"
      <4>1. gmail'[d] = [gmail[d] EXCEPT !.version = @ + 1]
        BY <2>2, <3>2 DEF ApplyMutation
      <4> QED BY <1>0, <2>1, <4>1
    <3> QED BY <2>1, <3>1, <3>2 DEF Types
  <2>4. \A x \in Commands \ {c} : EffectEvident(x)' <=> EffectEvident(x)
    <3> SUFFICES ASSUME NEW x \in Commands \ {c} PROVE EffectEvident(x)' <=> EffectEvident(x)
      OBVIOUS
    <3>1. CASE cmd[x].type # "send"
      BY <1>1, <2>2, <3>1 DEF EffectEvident
    <3>2. CASE cmd[x].type = "send" /\ cmd[x].draft = d
      BY <1>1, <2>2, <2>3, <3>2, SendIsUnique DEF EffectEvident
    <3>3. CASE cmd[x].type = "send" /\ cmd[x].draft # d
      BY <1>0, <1>1, <2>2, <3>3 DEF EffectEvident
    <3> QED BY <3>1, <3>2, <3>3
  <2>5. EffectEvident(c)'
    BY <2>2 DEF EffectEvident
  <2>6. Evident' = Evident \cup {c}
    BY <2>4, <2>5 DEF Evident
  <2> QED BY <1>3, <2>1, <2>6
<1>5. ASSUME NEW c \in Commands, GmailRefuses(c) PROVE PromiseStep
  BY <1>2, <1>5 DEF GmailRefuses
<1>6. ASSUME NEW d \in Drafts, GmailUserEdits(d) \/ GmailUserDeletes(d) PROVE PromiseStep
  BY <1>0, <1>2, <1>6 DEF GmailUserEdits, GmailUserDeletes
<1>7. ASSUME NEW d \in Drafts, GmailUserSends(d) PROVE PromiseStep
  <2>1. /\ applied' = applied /\ gmail'[d].sent > 0
        /\ \A e \in Drafts \ {d} : gmail'[e] = gmail[e]
    BY <1>0, <1>7 DEF GmailUserSends
  <2>2. \A x \in Commands : ~(cmd[x].type = "send" /\ cmd[x].draft = d) =>
          (EffectEvident(x)' <=> EffectEvident(x))
    BY <1>0, <1>1, <2>1 DEF EffectEvident
  <2>3. CASE \E c \in Commands : cmd[c].type = "send" /\ cmd[c].draft = d
    <3>1. PICK c \in Commands : cmd[c].type = "send" /\ cmd[c].draft = d
      BY <2>3
    <3>2. \A x \in Commands \ {c} : EffectEvident(x)' <=> EffectEvident(x)
      BY <2>2, <3>1, SendIsUnique
    <3>3. EffectEvident(c)'
      BY <1>1, <2>1, <3>1 DEF EffectEvident
    <3>4. Evident' = Evident \cup {c}
      BY <3>2, <3>3 DEF Evident
    <3> QED BY <1>0, <1>3, <3>1, <3>4
  <2>4. CASE ~ \E c \in Commands : cmd[c].type = "send" /\ cmd[c].draft = d
    <3>1. Evident' = Evident
      BY <2>2, <2>4 DEF Evident
    <3> QED BY <1>1, <3>1, Stutters
  <2> QED BY <2>3, <2>4
<1> QED BY <1>4, <1>5, <1>6, <1>7 DEF Gmail

\* The end of an execution fails an uncalled mutation, leaves it in doubt, or
\* keeps it open.
LEMMA EndPromised ==
  ASSUME PromiseInv, NEW c \in Commands, cmd[c].status = "running",
         NEW status \in {"failed", "retryable", "recovery_required"}, Ends(c, status),
         status = "failed" => calls[c] = 0,
         UNCHANGED <<gmail, calls, applied>>
  PROVE  PromiseStep
<1>1. Stage' = [Stage EXCEPT ![c] = StageOf(status)] /\ Stage[c] = "open"
  BY StageChange DEF Ends, StageOf, Stage
<1>2. Evident' = Evident
  BY EvidentSame DEF Ends
<1>3. CASE status = "failed"
  <2>1. Promise!Fail(c)
    BY <1>1, <1>2, <1>3 DEF Promise!Fail, StageOf, Stage, Evident
  <2> QED BY <2>1, MutationMoves
<1>4. CASE status = "retryable"
  BY <1>1, <1>2, <1>4, Stutters DEF StageOf, Stage
<1>5. CASE status = "recovery_required"
  <2>1. Stage' = [m \in Commands |-> IF m \in {c} THEN "doubtful" ELSE Stage[m]]
    <3>1. StageOf(status) = "doubtful"
      BY <1>5 DEF StageOf
    <3>2. Stage' = [Stage EXCEPT ![c] = "doubtful"] /\ DOMAIN Stage = Commands
      BY <1>1, <3>1 DEF Stage
    <3> QED BY <3>2 DEF Stage
  <2>2. Promise!Doubt({c})
    BY <1>1, <1>2, <2>1 DEF Promise!Doubt, Stage, Evident
  <2> QED BY <2>2 DEF PromiseStep, Promise!Next
<1> QED BY <1>3, <1>4, <1>5

\* A confirmation succeeds on evidence.
LEMMA SuccessPromised ==
  ASSUME PromiseInv, NEW c \in Commands, cmd[c].status \in {"running", "recovery_required"},
         Ends(c, "succeeded"), EffectEvident(c), UNCHANGED <<gmail, calls, applied>>
  PROVE  PromiseStep
<1>1. Stage' = [Stage EXCEPT ![c] = "succeeded"] /\ Stage[c] \in {"open", "doubtful"}
  BY StageChange DEF Ends, StageOf, Stage
<1>2. Evident' = Evident
  BY EvidentSame DEF Ends
<1>3. Promise!Succeed(c)
  BY <1>1, <1>2 DEF Promise!Succeed, Stage, Evident
<1> QED BY <1>3, MutationMoves

\* One scan leaves every uncertain execution in doubt and reopens the others.
LEMMA ScanPromised ==
  ASSUME PromiseInv, RecoverExpiredLeases
  PROVE  PromiseStep
<1> DEFINE M == {c \in ExpiredCommands : cmd[c].marked}
<1>1. M \in SUBSET Commands /\ \A c \in M : Stage[c] = "open"
  BY DEF ExpiredCommands, Stage, StageOf
<1>2. \A c \in Commands : StageOf(cmd'[c].status) =
        IF c \in M THEN "doubtful" ELSE StageOf(cmd[c].status)
  <2> SUFFICES ASSUME NEW c \in Commands
               PROVE  StageOf(cmd'[c].status) = IF c \in M THEN "doubtful" ELSE StageOf(cmd[c].status)
    OBVIOUS
  <2>1. CASE c \notin ExpiredCommands
    BY <2>1 DEF RecoverExpiredLeases
  <2>2. CASE c \in ExpiredCommands
    BY <2>2, RecoveredRow DEF PromiseInv, RowInv, RecoveredStatus, StageOf
  <2> QED BY <2>1, <2>2
<1>3. Stage' = [c \in Commands |-> IF c \in M THEN "doubtful" ELSE Stage[c]]
  BY <1>2 DEF Stage
<1>4. Evident' = Evident /\ calls' = calls
  BY EvidentSame, RecoveredRow DEF RecoverExpiredLeases, PromiseInv, RowInv
<1>5. Promise!Doubt(M)
  BY <1>1, <1>3, <1>4 DEF Promise!Doubt, Stage, Evident
<1> QED BY <1>1, <1>5 DEF PromiseStep, Promise!Next

\* A step that keeps the stages, the calls and Gmail.
LEMMA QuietPromised ==
  ASSUME PromiseInv, [Next]_vars, UNCHANGED <<gmail, calls, applied>>,
         \A c \in Commands : ~Requested(c) /\ StageOf(cmd'[c].status) = StageOf(cmd[c].status)
  PROVE  PromiseStep
<1>1. Stage' = Stage
  BY StageSame
<1>2. Evident' = Evident
  BY IdentityKept, EvidentSame DEF PromiseInv
<1> QED BY <1>1, <1>2, Stutters

\* Before the marker, a command that fails was not called.
LEMMA UncalledBeforeMarker ==
  ASSUME RowInv, CallInv, NEW w \in Workers,
         work[w].pc \in {"claimed", "loaded", "conflicted", "checked", "unseen"}, Executing(w)
  PROVE  calls[work[w].cmd] = 0
BY DEF RowInv, RowsOK, CallInv, SlotsRespectMarker, CalledIsMarked, PreMarker

\* Every step keeps the promise.
LEMMA NextPromised == PromiseInv /\ [Next]_vars => PromiseStep
<1> SUFFICES ASSUME PromiseInv, [Next]_vars PROVE PromiseStep
  OBVIOUS
<1>0. /\ RowInv /\ CallInv /\ TypeOK /\ cmd \in [Commands -> CommandRow]
      /\ \A w \in Workers : work[w].pc # "idle" =>
           work[w].cmd \in Commands /\ cmd[work[w].cmd].draft \in Drafts
  BY DEF PromiseInv, RowInv, RowsOK, TypeOK
<1>1. CASE UserRequests
  <2>1. \E c \in Commands : Requested(c)
    BY <1>1 DEF UserRequests, Requested
  <2> QED BY <2>1, RequestPromised
<1>2. SUFFICES ASSUME \A c \in Commands : ~Requested(c), ~UserRequests PROVE PromiseStep
  BY <1>1, RequestPromised
<1>3. CASE UNCHANGED <<cmd, gmail, calls, applied>>
  BY <1>2, <1>3, QuietPromised
<1>4. CASE UNCHANGED vars \/ RepairInconsistentDraftStates
  BY <1>3, <1>4 DEF vars, RepairInconsistentDraftStates
<1>5. ASSUME NEW w \in Workers, NEW c \in Commands, ClaimCommand(w, c) \/ ClaimRecovery(w, c)
      PROVE  PromiseStep
  <2>1. /\ \A x \in Commands \ {c} : cmd'[x] = cmd[x]
        /\ \/ cmd[c].status \in {"pending", "retryable"} /\ cmd'[c].status = "running"
           \/ cmd'[c].status = cmd[c].status
    <3>1. CASE ClaimCommand(w, c)
      <4>1. \A x \in Commands \ {c} : cmd'[x] = cmd[x]
        BY <1>0, <3>1 DEF ClaimCommand
      <4>2. cmd[c].status \in {"pending", "retryable"} /\ cmd'[c].status = "running"
        BY <1>0, <3>1 DEF ClaimCommand, CommandRow
      <4> QED BY <4>1, <4>2
    <3>2. CASE ClaimRecovery(w, c)
      <4>1. \A x \in Commands \ {c} : cmd'[x] = cmd[x]
        BY <1>0, <3>2 DEF ClaimRecovery
      <4>2. cmd'[c].status = cmd[c].status
        BY <1>0, <3>2 DEF ClaimRecovery, CommandRow
      <4> QED BY <4>1, <4>2
    <3> QED BY <1>5, <3>1, <3>2
  <2>2. \A x \in Commands : StageOf(cmd'[x].status) = StageOf(cmd[x].status)
    BY <2>1 DEF StageOf
  <2> QED BY <1>2, <1>5, <2>2, QuietPromised DEF ClaimCommand, ClaimRecovery
<1>6. ASSUME NEW w \in Workers,
             LoadDraft(w) \/ PreflightGetDraft(w) \/ SearchByMessageId(w) \/ Abandon(w)
      PROVE  PromiseStep
  BY <1>3, <1>6 DEF LoadDraft, PreflightGetDraft, SearchByMessageId, Abandon
<1>7. ASSUME NEW w \in Workers, MarkProviderExecutionStarted(w) \/ ReleaseRecoveryClaim(w)
      PROVE  PromiseStep
  <2>1. \A x \in Commands : cmd'[x].status = cmd[x].status
    BY <1>0, <1>7 DEF MarkProviderExecutionStarted, ReleaseRecoveryClaim, CommandRow
  <2>2. UNCHANGED <<gmail, calls, applied>>
    BY <1>7 DEF MarkProviderExecutionStarted, ReleaseRecoveryClaim
  <2> QED BY <1>2, <2>1, <2>2, QuietPromised
<1>8. ASSUME NEW w \in Workers, CallProvider(w) PROVE PromiseStep
  BY <1>8, CallPromised
<1>9. ASSUME NEW w \in Workers, CompleteConflict(w) PROVE PromiseStep
  <2>1. cmd[work[w].cmd].status = "running" /\ calls[work[w].cmd] = 0
    BY <1>0, <1>9, UncalledBeforeMarker DEF CompleteConflict, Executing, HoldsClaim
  <2> QED BY <1>0, <1>9, <2>1, SettleEnds, EndPromised DEF CompleteConflict
<1>10. ASSUME NEW w \in Workers, CatchBeforeMarker(w) PROVE PromiseStep
  <2>1. cmd[work[w].cmd].status = "running" /\ calls[work[w].cmd] = 0
    BY <1>0, <1>10, UncalledBeforeMarker DEF CatchBeforeMarker, Executing, HoldsClaim
  <2>2. UNCHANGED <<gmail, calls, applied>>
    BY <1>10 DEF CatchBeforeMarker
  <2> QED BY <1>0, <1>10, <2>1, <2>2, CatchBeforeMarkerEnds, EndPromised
<1>11. ASSUME NEW w \in Workers, CatchAfterMarker(w) PROVE PromiseStep
  <2>1. cmd[work[w].cmd].status = "running"
    BY <1>11 DEF CatchAfterMarker, Executing, HoldsClaim
  <2> QED BY <1>0, <1>11, <2>1, RequireRecoveryEnds, EndPromised DEF CatchAfterMarker
<1>12. ASSUME NEW w \in Workers, CompleteConfirmed(w) PROVE PromiseStep
  <2> DEFINE c == work[w].cmd
  <2>1. c \in Commands /\ cmd[c].status = "running" /\ Ends(c, "succeeded")
    BY <1>0, <1>12, SettleEnds DEF CompleteConfirmed, Executing, HoldsClaim, Succeed
  <2>2. EffectEvident(c)
    BY <1>12, <2>1 DEF CompleteConfirmed, PromiseInv, GmailInv, AnswerIsEvident, EffectEvident
  <2> QED BY <1>12, <2>1, <2>2, SuccessPromised DEF CompleteConfirmed
<1>13. ASSUME NEW w \in Workers, CompleteRecovered(w) PROVE PromiseStep
  <2> DEFINE c == work[w].cmd
  <2>1. c \in Commands /\ cmd[c].status = "recovery_required" /\ Ends(c, "succeeded")
    BY <1>0, <1>13, SettleEnds DEF CompleteRecovered, HoldsClaim, Succeed
  <2>2. EffectEvident(c)
    BY <1>13 DEF CompleteRecovered, PromiseInv, OutcomeInv, FoundIsEvident, EffectEvident
  <2> QED BY <1>13, <2>1, <2>2, SuccessPromised DEF CompleteRecovered
<1>14. ASSUME NEW c \in Commands, LeaseExpires(c) \/ BackoffElapses(c) PROVE PromiseStep
  <2>1. \A x \in Commands : cmd'[x].status = cmd[x].status
    BY <1>0, <1>14 DEF LeaseExpires, BackoffElapses, CommandRow
  <2> QED BY <1>2, <1>14, <2>1, QuietPromised DEF LeaseExpires, BackoffElapses
<1>15. CASE RecoverExpiredLeases
  BY <1>15, ScanPromised
<1>16. CASE Gmail
  BY <1>16, GmailPromised
<1> QED BY <1>2, <1>4, <1>5, <1>6, <1>7, <1>8, <1>9, <1>10, <1>11, <1>12, <1>13, <1>14, <1>15, <1>16
        DEF Next, WorkerStep, ExecutionStep, VerificationStep, Passage, Maintenance

\* The pipeline of claims, crashes, lease expiries, recoveries and verifications
\* implements MutationPromise.
THEOREM PromiseImplemented == Spec => PromiseKept
<1>1. Init => UnusedKeys
  BY DEF Init, NoRow, UnusedKeys
<1>2. RowInv /\ UnusedKeys /\ [Next]_vars => UnusedKeys'
  BY UnusedKeysNext
<1>3. Spec => []PromiseInv
  BY <1>1, <1>2, Outcomes, PTL DEF Spec, PromiseInv
<1>4. Init => Promise!Init
  <2> SUFFICES ASSUME Init PROVE Promise!Init
    OBVIOUS
  <2>1. [c \in Commands |-> StageOf(cmd[c].status)] = [m \in Commands |-> "none"]
    BY DEF Init, NoRow, StageOf
  <2>2. calls = [m \in Commands |-> 0]
    BY DEF Init
  <2>3. {c \in Commands : EffectEvident(c)} = {}
    BY DEF Init, NoRow, EffectEvident
  <2> QED BY <2>1, <2>2, <2>3 DEF Promise!Init
<1>5. PromiseInv /\ [Next]_vars => [Promise!Next]_(Promise!vars)
  BY NextPromised DEF PromiseStep
<1> QED BY <1>3, <1>4, <1>5, PTL DEF Spec, PromiseKept, Promise!Spec
==============================================================================

------------------------ MODULE ThreadCommandsProofs ------------------------
(***************************************************************************)
(* For any commands, slots and bounds: two slots never work in the same attempt *)
(* of a command, so what an attempt's call has come to is what its slot reports. *)
(***************************************************************************)
EXTENDS ThreadCommands, TLAPS

\* The statuses of a command's row.
Statuses == {"none", "pending", "running", "retryable", "succeeded", "failed", "recovery_required"}
\* What becomes of one call of Gmail.
CallStates == {"none", "flying", "ok", "error", "refused"}
\* A slot inside executeProviderCommand.
Busy(w) == work[w].pc # "idle"

\* The rows of provider_commands.
CommandRows ==
  [type : Types \cup {"none"}, status : Statuses, attempts : 0..AttemptBound,
   owner : Workers \cup {NoWorker}, leased : BOOLEAN]

\* The type invariant, in four parts.
LabelsOK == labels \in Seq((SUBSET Labels) \cup {NoThread}) /\ Len(labels) > 0
RequestOK == request \in [Commands -> [Attempts -> [state : CallStates, at : Nat]]]
CmdOK == cmd \in [Commands -> CommandRows]
WorkOK ==
  /\ work \in [Workers -> [pc : {"idle", "claimed", "loaded", "calling"},
                           cmd : Commands \cup {NoCommand}, attempt : 0..AttemptBound]]
  /\ \A w \in Workers : Busy(w) => work[w].cmd \in Commands /\ work[w].attempt \in Attempts

TypeOK == LabelsOK /\ RequestOK /\ CmdOK /\ WorkOK

\* Attempts are numbered: a slot works in one that was begun, an owner in the last,
\* and no two slots in the same.
AttemptsNumbered ==
  /\ \A c \in Commands : cmd[c].status = "none" => cmd[c].attempts = 0
  /\ \A w \in Workers : Busy(w) => work[w].attempt <= cmd[work[w].cmd].attempts
  /\ \A w \in Workers :
       Busy(w) /\ cmd[work[w].cmd].status = "running" /\ cmd[work[w].cmd].owner = w
         => work[w].attempt = cmd[work[w].cmd].attempts
  /\ \A v, w \in Workers :
       Busy(v) /\ Busy(w) /\ work[v].cmd = work[w].cmd /\ work[v].attempt = work[w].attempt => v = w

\* An attempt's call is made once, by its slot.
CallsNumbered ==
  /\ \A c \in Commands, a \in Attempts : a > cmd[c].attempts => request[c][a].state = "none"
  /\ \A w \in Workers : Busy(w) =>
       (Call(w).state = "none" <=> work[w].pc \in {"claimed", "loaded"})

\* The last attempt of a failed command is over: it was not called, refused or answered
\* with an error, and no slot works in it any more.
FailedIsOver ==
  \A c \in Commands : cmd[c].status = "failed" =>
    /\ \A a \in Attempts : a = cmd[c].attempts => request[c][a].state \in {"none", "refused", "error"}
    /\ \A w \in Workers : Busy(w) /\ work[w].cmd = c => work[w].attempt # cmd[c].attempts

\* The inductive invariant.
Inv == TypeOK /\ AttemptsNumbered /\ CallsNumbered /\ FailedIsOver

\* Nothing has been requested yet.
LEMMA InitInv == Init => Inv
<1> SUFFICES ASSUME Init PROVE Inv
  OBVIOUS
<1>1. TypeOK
  BY ThreadAssumption DEF Init, TypeOK, LabelsOK, RequestOK, CmdOK, WorkOK, CommandRows, Statuses, CallStates, NoRow, NotCalled, Idle,
     Labels, Attempts, Busy, Now, CurrentId
<1>2. AttemptsNumbered /\ CallsNumbered /\ FailedIsOver
  BY ThreadAssumption DEF Init, AttemptsNumbered, CallsNumbered, FailedIsOver, Busy, Idle, NoRow,
     NotCalled, Attempts, Call
<1> QED
  BY <1>1, <1>2 DEF Inv

(* What the actions do to the fields the invariant reads. *)

\* One row of provider_commands changes.
Rewrites(c) == CmdOK' /\ \A x \in Commands \ {c} : cmd'[x] = cmd[x]

\* One slot changes.
Moves(w) == WorkOK' /\ \A v \in Workers \ {w} : work'[v] = work[v]

\* One call changes.
Answers(c, a, state) ==
  /\ RequestOK'
  /\ request'[c][a].state = state
  /\ \A x \in Commands, b \in Attempts : x # c \/ b # a => request'[x][b] = request[x][b]

\* What a busy slot works on.
LEMMA CallTyped ==
  ASSUME TypeOK, NEW w \in Workers, Busy(w)
  PROVE  /\ work[w].cmd \in Commands
         /\ work[w].attempt \in Attempts
         /\ Call(w).state \in CallStates
         /\ cmd[work[w].cmd] \in CommandRows
BY DEF TypeOK, WorkOK, RequestOK, CmdOK, Call

\* The row of an unused key is typed.
LEMMA EmptyRow == NoRow \in CommandRows /\ NoRow.attempts = 0
BY ThreadAssumption DEF NoRow, CommandRows, Statuses

\* Writing a typed row keeps the table typed.
LEMMA Rewritten ==
  ASSUME CmdOK, NEW c \in Commands, NEW r \in CommandRows, cmd' = [cmd EXCEPT ![c] = r]
  PROVE  Rewrites(c) /\ cmd'[c] = r
BY DEF CmdOK, Rewrites

\* What a claim writes.
LEMMA Claimed ==
  ASSUME CmdOK, NEW c \in Commands, NEW n \in Attempts, NEW w \in Workers,
         cmd' = [cmd EXCEPT ![c] = [cmd[c] EXCEPT !.status = "running", !.attempts = n,
                                                  !.owner = w, !.leased = TRUE]]
  PROVE  Rewrites(c) /\ cmd'[c].status = "running" /\ cmd'[c].attempts = n /\ cmd'[c].owner = w
<1> DEFINE r == [cmd[c] EXCEPT !.status = "running", !.attempts = n, !.owner = w, !.leased = TRUE]
<1>1. cmd[c] \in CommandRows /\ n \in 0..AttemptBound
  BY ThreadAssumption DEF CmdOK, Attempts
<1>2. r \in CommandRows /\ r.status = "running" /\ r.attempts = n /\ r.owner = w
  BY <1>1 DEF CommandRows, Statuses
<1> HIDE DEF r
<1>3. cmd' = [cmd EXCEPT ![c] = r]
  BY DEF r
<1> QED
  BY <1>2, <1>3, Rewritten

\* A slot that takes up an attempt, or goes on with it.
LEMMA Moved ==
  ASSUME WorkOK, NEW w \in Workers, NEW pc \in {"claimed", "loaded", "calling"},
         NEW c \in Commands, NEW a \in Attempts,
         work' = [work EXCEPT ![w] = [pc |-> pc, cmd |-> c, attempt |-> a]]
  PROVE  Moves(w) /\ work'[w] = [pc |-> pc, cmd |-> c, attempt |-> a]
<1>1. [pc |-> pc, cmd |-> c, attempt |-> a] \in
        [pc : {"idle", "claimed", "loaded", "calling"}, cmd : Commands \cup {NoCommand},
         attempt : 0..AttemptBound]
  BY ThreadAssumption DEF Attempts
<1> QED
  BY <1>1 DEF WorkOK, Moves, Busy

\* A slot that becomes free.
LEMMA Finished ==
  ASSUME WorkOK, NEW w \in Workers, Finish(w)
  PROVE  Moves(w) /\ work'[w].pc = "idle"
BY ThreadAssumption DEF WorkOK, Finish, Idle, Moves, Busy

\* Settling a claim changes the status and no attempt.
LEMMA Settled ==
  ASSUME CmdOK, NEW c \in Commands, NEW status \in Statuses, Settle(c, status)
  PROVE  Rewrites(c) /\ cmd'[c].status = status /\ cmd'[c].attempts = cmd[c].attempts
<1> DEFINE r == [cmd[c] EXCEPT !.status = status, !.owner = NoWorker, !.leased = FALSE]
<1>1. cmd[c] \in CommandRows
  BY DEF CmdOK
<1>2. r \in CommandRows /\ r.status = status /\ r.attempts = cmd[c].attempts
  BY <1>1 DEF CommandRows
<1>3. cmd' = [cmd EXCEPT ![c] = r]
  BY DEF Settle
<1> QED
  BY <1>2, <1>3, Rewritten

\* One call gets its answer.
LEMMA Answered ==
  ASSUME RequestOK, NEW c \in Commands, NEW a \in Attempts,
         NEW r \in [state : CallStates, at : Nat],
         request' = [request EXCEPT ![c] = [request[c] EXCEPT ![a] = r]]
  PROVE  Answers(c, a, r.state)
<1>1. [request[c] EXCEPT ![a] = r] \in [Attempts -> [state : CallStates, at : Nat]]
  BY DEF RequestOK
<1> QED
  BY <1>1 DEF RequestOK, Answers

\* The four ways a slot that holds its claim ends: what the command has come to, and
\* of which calls it is a failure.
Ends(w) ==
  LET c == work[w].cmd IN
  /\ Moves(w) /\ work'[w].pc = "idle"
  /\ Rewrites(c) /\ cmd'[c].attempts = cmd[c].attempts
  /\ cmd'[c].status \in {"succeeded", "failed", "retryable", "recovery_required"}
  /\ cmd'[c].status = "failed" => Call(w).state \in {"none", "refused", "error"}
  /\ request' = request

\* Every way of ending a claim is one of those.
LEMMA SlotEnds ==
  ASSUME Inv, NEW w \in Workers,
         CompleteConfirmed(w) \/ CatchConfirmed(w) \/ CatchBeforeCall(w) \/ CatchCall(w)
  PROVE  Busy(w) /\ Executing(w) /\ Ends(w)
<1> DEFINE c == work[w].cmd
<1>1. Busy(w) /\ Executing(w) /\ Finish(w) /\ request' = request
  BY DEF CompleteConfirmed, CatchConfirmed, CatchBeforeCall, CatchCall, gmailVars, Busy
<1>2. c \in Commands /\ Call(w).state \in CallStates
  BY <1>1, CallTyped DEF Inv
<1>3. \E status \in {"succeeded", "failed", "retryable", "recovery_required"} :
        /\ Settle(c, status)
        /\ status = "failed" => Call(w).state \in {"none", "refused", "error"}
  <2>1. CASE CompleteConfirmed(w) \/ CatchConfirmed(w)
    BY <2>1 DEF CompleteConfirmed, CatchConfirmed
  <2>2. CASE CatchBeforeCall(w)
    <3>1. Call(w).state = "none"
      BY <2>2, <1>1 DEF Inv, CallsNumbered, CatchBeforeCall
    <3> QED
      BY <2>2, <3>1 DEF CatchBeforeCall
  <2>3. CASE CatchCall(w)
    <3>1. CASE Call(w).state \in {"refused", "error"}
      BY <2>3, <3>1 DEF CatchCall, ErrorsOf, ScheduleRetry
    <3>2. CASE Call(w).state \notin {"refused", "error"}
      BY <2>3, <3>2 DEF CatchCall, ErrorsOf
    <3> QED
      BY <3>1, <3>2
  <2> QED
    BY <2>1, <2>2, <2>3
<1>4. PICK status \in {"succeeded", "failed", "retryable", "recovery_required"} :
        /\ Settle(c, status)
        /\ status = "failed" => Call(w).state \in {"none", "refused", "error"}
  BY <1>3
<1>5. Rewrites(c) /\ cmd'[c].status = status /\ cmd'[c].attempts = cmd[c].attempts
  BY <1>2, <1>4, Settled DEF Inv, TypeOK, Statuses
<1>6. Moves(w) /\ work'[w].pc = "idle"
  BY <1>1, Finished DEF Inv, TypeOK
<1> QED
  BY <1>1, <1>4, <1>5, <1>6 DEF Ends

\* Gmail's labels stay typed.
LEMMA LabelsStep ==
  ASSUME LabelsOK, [Next]_vars
  PROVE  LabelsOK'
<1> DEFINE S == (SUBSET Labels) \cup {NoThread}
<1>1. Now \in S
  BY DEF LabelsOK, Now, CurrentId
<1>2. ASSUME NEW L \in S, labels' = Append(labels, L) PROVE LabelsOK'
  BY <1>2 DEF LabelsOK
<1>3. CASE UserChanges
  <2>1. \A l \in Labels : Now \ {l} \in S /\ Now \cup {l} \in S
    BY <1>1, <1>3 DEF UserChanges
  <2>2. \E L \in S : labels' = Append(labels, L)
    BY <1>3, <2>1 DEF UserChanges
  <2> QED
    BY <1>2, <2>2
<1>4. ASSUME NEW c \in Commands, NEW a \in Attempts, GmailModifies(c, a) PROVE LabelsOK'
  <2>1. Modified(cmd[c].type, Now) \in S
    BY <1>1, <1>4 DEF GmailModifies, Modified, Labels
  <2>2. labels' = labels \/ labels' = Append(labels, Modified(cmd[c].type, Now))
    BY <1>4 DEF GmailModifies
  <2> QED
    BY <1>2, <2>1, <2>2 DEF LabelsOK
<1>5. CASE UNCHANGED labels
  BY <1>5 DEF LabelsOK
<1> QED
  BY <1>3, <1>4, <1>5 DEF Next, ThreadStep, WorkerStep, SyncStep, GmailRefuses, CreateThreadCommand,
     ClaimCommand, LeaseExpires, RecoverExpiredLease, LoadCommand, CallGmail, CompleteConfirmed,
     CatchConfirmed, CatchCall, CatchBeforeCall, Abandon, ListHistory, ReadThread, CommitPass,
     gmailVars, vars

\* Each action keeps the invariant.
LEMMA StepInv ==
  ASSUME Inv, [Next]_vars
  PROVE  Inv'
<1> DEFINE Rest == RequestOK /\ CmdOK /\ WorkOK /\ AttemptsNumbered /\ CallsNumbered /\ FailedIsOver
<1>0. LabelsOK'
  BY LabelsStep DEF Inv, TypeOK
<1> SUFFICES Rest'
  BY <1>0 DEF Inv, TypeOK
<1>t. LabelsOK /\ RequestOK /\ CmdOK /\ WorkOK /\ TypeOK
  BY DEF Inv, TypeOK
<1>n. AttemptsNumbered /\ CallsNumbered /\ FailedIsOver
  BY DEF Inv
<1>1. CASE UNCHANGED <<request, cmd, work>>
  BY <1>1, <1>t, <1>n DEF RequestOK, CmdOK, WorkOK, Busy, Call, AttemptsNumbered, CallsNumbered,
     FailedIsOver
<1>2. ASSUME NEW c \in Commands, NEW a \in Attempts, GmailModifies(c, a) \/ GmailRefuses(c, a)
      PROVE Rest'
  <2>1. \E state \in {"ok", "error", "refused"} : Answers(c, a, state)
    <3>1. Len(labels') \in Nat /\ request[c][a].at \in Nat
      BY <1>0, <1>t DEF LabelsOK, RequestOK
    <3>2. \E r \in [state : {"ok", "error", "refused"}, at : Nat] :
            request' = [request EXCEPT ![c] = [request[c] EXCEPT ![a] = r]]
      <4>1. CASE GmailModifies(c, a)
        BY <4>1, <3>1 DEF GmailModifies
      <4>2. CASE GmailRefuses(c, a)
        <5>1. [request[c][a] EXCEPT !.state = "refused"] \in [state : {"ok", "error", "refused"}, at : Nat]
          BY <1>t DEF RequestOK
        <5> QED
          BY <4>2, <5>1 DEF GmailRefuses
      <4> QED
        BY <1>2, <4>1, <4>2
    <3> QED
      BY <3>2, <1>t, Answered DEF CallStates
  <2>2. request[c][a].state = "flying" /\ UNCHANGED <<cmd, work>>
    BY <1>2 DEF GmailModifies, GmailRefuses, commandVars
  <2>3. CmdOK' /\ WorkOK' /\ AttemptsNumbered'
    BY <2>2, <1>t, <1>n DEF CmdOK, WorkOK, AttemptsNumbered, Busy
  <2>4. \A x \in Commands, b \in Attempts : request'[x][b].state = "none" <=> request[x][b].state = "none"
    BY <2>1, <2>2 DEF Answers
  <2>5. CallsNumbered'
    BY <2>2, <2>4, <1>t, <1>n DEF CallsNumbered, WorkOK, Busy, Call
  <2>6. FailedIsOver'
    BY <2>1, <2>2, <1>n DEF Answers, FailedIsOver, Busy
  <2> QED
    BY <2>1, <2>3, <2>5, <2>6 DEF Answers
<1>3. ASSUME NEW c \in Commands, NEW type \in Types, CreateThreadCommand(c, type) PROVE Rest'
  <2>1. Rewrites(c) /\ cmd'[c].status = "pending" /\ cmd'[c].attempts = 0
    <3> DEFINE r == [NoRow EXCEPT !.type = type, !.status = "pending"]
    <3>1. r \in CommandRows /\ r.status = "pending" /\ r.attempts = 0
      BY EmptyRow DEF CommandRows, Statuses
    <3>2. cmd' = [cmd EXCEPT ![c] = r]
      BY <1>3 DEF CreateThreadCommand
    <3> HIDE DEF r
    <3> QED
      BY <3>1, <3>2, <1>t, Rewritten
  <2>2. cmd[c].status = "none" /\ UNCHANGED <<request, work>>
    BY <1>3 DEF CreateThreadCommand, gmailVars
  <2>3. RequestOK' /\ WorkOK'
    BY <2>2, <1>t DEF RequestOK, WorkOK, Busy
  <2>4. cmd[c].attempts = 0
    BY <2>2, <1>n DEF AttemptsNumbered
  <2>5. \A x \in Commands : cmd'[x].attempts = cmd[x].attempts
    BY <2>1, <2>4 DEF Rewrites
  <2>6. \A x \in Commands : x # c => cmd'[x] = cmd[x]
    BY <2>1 DEF Rewrites
  <2>7. AttemptsNumbered'
    BY <2>1, <2>2, <2>5, <2>6, <1>t, <1>n DEF AttemptsNumbered, WorkOK, Busy
  <2>8. CallsNumbered' /\ FailedIsOver'
    BY <2>1, <2>2, <2>5, <2>6, <1>n DEF CallsNumbered, FailedIsOver, Busy, Call
  <2> QED
    BY <2>1, <2>3, <2>7, <2>8 DEF Rewrites
<1>4. ASSUME NEW w \in Workers, NEW c \in Commands, ClaimCommand(w, c) PROVE Rest'
  <2> DEFINE n == cmd[c].attempts + 1
  <2>1. cmd[c] \in CommandRows /\ n \in Attempts /\ n > cmd[c].attempts /\ cmd[c].attempts \in Nat
    BY <1>4, <1>t, ThreadAssumption DEF ClaimCommand, CmdOK, CommandRows, Attempts
  <2>2. /\ cmd' = [cmd EXCEPT ![c] = [cmd[c] EXCEPT !.status = "running", !.attempts = n,
                                                    !.owner = w, !.leased = TRUE]]
        /\ work' = [work EXCEPT ![w] = [pc |-> "claimed", cmd |-> c, attempt |-> n]]
        /\ request' = request
        /\ ~Busy(w)
        /\ cmd[c].status \in {"pending", "retryable"}
    BY <1>4 DEF ClaimCommand, gmailVars, Busy
  <2> HIDE DEF n
  <2>3. Rewrites(c) /\ cmd'[c].status = "running" /\ cmd'[c].attempts = n /\ cmd'[c].owner = w
    <3>1. cmd' = [cmd EXCEPT ![c] = [cmd[c] EXCEPT !.status = "running", !.attempts = n,
                                                   !.owner = w, !.leased = TRUE]]
      BY <2>2
    <3>2. CmdOK /\ n \in Attempts
      BY <2>1, <1>t
    <3> QED
      BY <3>1, <3>2, Claimed
  <2>4. Moves(w) /\ work'[w] = [pc |-> "claimed", cmd |-> c, attempt |-> n]
    BY <2>1, <2>2, <1>t, Moved
  <2>5. work'[w].pc = "claimed" /\ work'[w].cmd = c /\ work'[w].attempt = n
    BY <2>4
  <2>6. \A v \in Workers : Busy(v) /\ work[v].cmd = c => work[v].attempt < n
    BY <2>1, <1>t, <1>n DEF AttemptsNumbered, WorkOK, Attempts
  <2>7. \A v \in Workers : v # w => work'[v] = work[v]
    BY <2>4 DEF Moves
  <2>8. \A x \in Commands : x # c => cmd'[x] = cmd[x]
    BY <2>3 DEF Rewrites
  <2>9. AttemptsNumbered'
    <3>1. \A x \in Commands : cmd'[x].status = "none" => cmd'[x].attempts = 0
      BY <2>3, <2>8, <1>n DEF AttemptsNumbered
    <3>2. ASSUME NEW v \in Workers, Busy(v)'
          PROVE  /\ work'[v].attempt <= cmd'[work'[v].cmd].attempts
                 /\ cmd'[work'[v].cmd].status = "running" /\ cmd'[work'[v].cmd].owner = v
                      => work'[v].attempt = cmd'[work'[v].cmd].attempts
      <4>1. CASE v = w
        BY <4>1, <2>1, <2>3, <2>5 DEF Attempts
      <4>2. CASE v # w
        <5>1. Busy(v) /\ work[v].cmd \in Commands /\ work[v].attempt \in Attempts
          BY <3>2, <4>2, <2>7, <1>t DEF Busy, WorkOK
        <5>2. CASE work[v].cmd = c
          BY <5>1, <5>2, <4>2, <2>1, <2>3, <2>6, <2>7 DEF Attempts
        <5>3. CASE work[v].cmd # c
          BY <5>1, <5>3, <4>2, <2>7, <2>8, <1>n DEF AttemptsNumbered
        <5> QED
          BY <5>2, <5>3
      <4> QED
        BY <4>1, <4>2
    <3>3. ASSUME NEW u \in Workers, NEW v \in Workers, Busy(u)', Busy(v)', u # v,
                 work'[u].cmd = work'[v].cmd, work'[u].attempt = work'[v].attempt
          PROVE  FALSE
      <4>1. CASE u # w /\ v # w
        BY <3>3, <4>1, <2>7, <1>n DEF Busy, AttemptsNumbered
      <4>2. CASE u = w
        BY <3>3, <4>2, <2>1, <2>5, <2>6, <2>7 DEF Busy, Attempts
      <4>3. CASE v = w
        BY <3>3, <4>3, <2>1, <2>5, <2>6, <2>7 DEF Busy, Attempts
      <4> QED
        BY <4>1, <4>2, <4>3
    <3> QED
      BY <3>1, <3>2, <3>3 DEF AttemptsNumbered
  <2>10. CallsNumbered'
    <3>1. \A x \in Commands, a \in Attempts : a > cmd'[x].attempts => request'[x][a].state = "none"
      BY <2>1, <2>2, <2>3, <2>8, <1>n DEF CallsNumbered, Attempts
    <3>2. request[c][n].state = "none"
      BY <2>1, <1>n DEF CallsNumbered
    <3>3. ASSUME NEW v \in Workers, Busy(v)'
          PROVE  Call(v)'.state = "none" <=> work'[v].pc \in {"claimed", "loaded"}
      <4>1. CASE v = w
        BY <4>1, <2>2, <2>5, <3>2 DEF Call
      <4>2. CASE v # w
        BY <3>3, <4>2, <2>2, <2>7, <1>n DEF Call, CallsNumbered, Busy
      <4> QED
        BY <4>1, <4>2
    <3> QED
      BY <3>1, <3>3 DEF CallsNumbered
  <2>11. FailedIsOver'
    <3>1. \A x \in Commands : cmd'[x].status = "failed" => x # c
      BY <2>3
    <3> QED
      BY <3>1, <2>2, <2>5, <2>7, <2>8, <1>n DEF FailedIsOver, Busy
  <2> QED
    BY <2>2, <2>3, <2>4, <2>9, <2>10, <2>11, <1>t DEF Rewrites, Moves, RequestOK
<1>5. ASSUME NEW c \in Commands, LeaseExpires(c) \/ RecoverExpiredLease(c) PROVE Rest'
  <2>1. /\ Rewrites(c)
        /\ cmd'[c].attempts = cmd[c].attempts
        /\ \/ cmd'[c].status = cmd[c].status /\ cmd'[c].owner = cmd[c].owner
           \/ cmd'[c].status = "retryable"
    <3>1. CASE LeaseExpires(c)
      <4> DEFINE r == [cmd[c] EXCEPT !.leased = FALSE]
      <4>1. cmd[c] \in CommandRows
        BY <1>t DEF CmdOK
      <4>2. r \in CommandRows /\ r.attempts = cmd[c].attempts /\ r.status = cmd[c].status
            /\ r.owner = cmd[c].owner
        BY <4>1 DEF CommandRows
      <4>3. cmd' = [cmd EXCEPT ![c] = r]
        BY <3>1, <4>1 DEF LeaseExpires, CommandRows
      <4> HIDE DEF r
      <4> QED
        BY <4>2, <4>3, <1>t, Rewritten
    <3>2. CASE RecoverExpiredLease(c)
      BY <3>2, <1>t, Settled DEF RecoverExpiredLease, Statuses
    <3> QED
      BY <1>5, <3>1, <3>2
  <2>2. UNCHANGED <<request, work>>
    BY <1>5 DEF LeaseExpires, RecoverExpiredLease, gmailVars
  <2>3. \A x \in Commands : cmd'[x].attempts = cmd[x].attempts
    BY <2>1 DEF Rewrites
  <2>4. \A x \in Commands :
          \/ cmd'[x].status = cmd[x].status /\ cmd'[x].owner = cmd[x].owner
          \/ cmd'[x].status = "retryable"
    BY <2>1 DEF Rewrites
  <2>5. AttemptsNumbered'
    BY <2>2, <2>3, <2>4, <1>t, <1>n DEF AttemptsNumbered, WorkOK, Busy
  <2>6. CallsNumbered'
    BY <2>2, <2>3, <1>n DEF CallsNumbered, Busy, Call
  <2>7. FailedIsOver'
    BY <2>2, <2>3, <2>4, <1>n DEF FailedIsOver, Busy
  <2> QED
    BY <2>1, <2>2, <2>5, <2>6, <2>7, <1>t DEF Rewrites, RequestOK, WorkOK, Busy
<1>6. ASSUME NEW w \in Workers, LoadCommand(w) PROVE Rest'
  <2>1. Moves(w) /\ work'[w] = [work[w] EXCEPT !.pc = "loaded"]
    BY <1>6, <1>t DEF LoadCommand, WorkOK, Moves, Busy
  <2>2. work[w].pc = "claimed" /\ UNCHANGED <<request, cmd>>
    BY <1>6 DEF LoadCommand, gmailVars
  <2>3. work'[w].pc = "loaded" /\ work'[w].cmd = work[w].cmd /\ work'[w].attempt = work[w].attempt
    BY <2>1, <1>t DEF WorkOK
  <2>4. \A v \in Workers :
          /\ Busy(v)' <=> Busy(v)
          /\ work'[v].cmd = work[v].cmd /\ work'[v].attempt = work[v].attempt
          /\ work'[v].pc \in {"claimed", "loaded"} <=> work[v].pc \in {"claimed", "loaded"}
    BY <2>1, <2>2, <2>3 DEF Moves, Busy
  <2>5. AttemptsNumbered' /\ FailedIsOver'
    BY <2>2, <2>4, <1>n DEF AttemptsNumbered, FailedIsOver
  <2>6. CallsNumbered'
    BY <2>2, <2>4, <1>n DEF CallsNumbered, Call
  <2> QED
    BY <2>1, <2>2, <2>5, <2>6, <1>t DEF Moves, RequestOK, CmdOK
<1>7. ASSUME NEW w \in Workers, CallGmail(w) PROVE Rest'
  <2> DEFINE c == work[w].cmd
             a == work[w].attempt
             r == [request[c][a] EXCEPT !.state = "flying"]
  <2>1. Moves(w) /\ work'[w] = [work[w] EXCEPT !.pc = "calling"]
    BY <1>7, <1>t DEF CallGmail, WorkOK, Moves, Busy
  <2>2. work[w].pc = "loaded" /\ cmd' = cmd /\ c \in Commands /\ a \in Attempts /\ Busy(w)
    BY <1>7, <1>t, CallTyped DEF CallGmail, Busy
  <2>3. work'[w].pc = "calling" /\ work'[w].cmd = c /\ work'[w].attempt = a
    BY <2>1, <1>t DEF WorkOK
  <2>4. Answers(c, a, "flying")
    <3>1. r \in [state : CallStates, at : Nat] /\ r.state = "flying"
      BY <2>2, <1>t DEF RequestOK, CallStates
    <3>2. request' = [request EXCEPT ![c] = [request[c] EXCEPT ![a] = r]]
      BY <1>7 DEF CallGmail
    <3> HIDE DEF r, c, a
    <3> QED
      BY <2>2, <3>1, <3>2, <1>t, Answered
  <2>5. \A v \in Workers :
          /\ Busy(v)' <=> Busy(v)
          /\ work'[v].cmd = work[v].cmd /\ work'[v].attempt = work[v].attempt
    BY <2>1, <2>2, <2>3 DEF Moves, Busy
  <2>6. AttemptsNumbered'
    BY <2>2, <2>5, <1>n DEF AttemptsNumbered
  <2>7. a <= cmd[c].attempts
    BY <2>2, <1>n DEF AttemptsNumbered
  <2>8. CallsNumbered'
    <3>1. \A x \in Commands, b \in Attempts : b > cmd'[x].attempts => request'[x][b].state = "none"
      <4>1. \A x \in Commands, b \in Attempts : b > cmd[x].attempts => x # c \/ b # a
        BY <2>2, <2>7, <1>t DEF CmdOK, CommandRows, Attempts
      <4> HIDE DEF c, a
      <4> QED
        BY <4>1, <2>2, <2>4, <1>n DEF Answers, CallsNumbered
    <3>2. ASSUME NEW v \in Workers, Busy(v)', v # w
          PROVE  Call(v)' = Call(v) /\ work'[v] = work[v] /\ Busy(v)
      <4>1. work'[v] = work[v] /\ Busy(v)
        BY <3>2, <2>1 DEF Moves, Busy
      <4>2. work[v].cmd # c \/ work[v].attempt # a
        BY <3>2, <4>1, <2>2, <1>n DEF AttemptsNumbered
      <4>3. work[v].cmd \in Commands /\ work[v].attempt \in Attempts
        BY <4>1, <1>t, CallTyped
      <4> HIDE DEF c, a
      <4> QED
        BY <4>1, <4>2, <4>3, <2>4 DEF Answers, Call
    <3>3. Call(w)'.state = "flying"
      BY <2>3, <2>4 DEF Answers, Call
    <3>4. \A v \in Workers : Busy(v)' => (Call(v)'.state = "none" <=> work'[v].pc \in {"claimed", "loaded"})
      BY <2>3, <3>2, <3>3, <1>n DEF CallsNumbered
    <3> QED
      BY <3>1, <3>4 DEF CallsNumbered
  <2>9. FailedIsOver'
    <3>1. \A x \in Commands : cmd[x].status = "failed" => x # c \/ a # cmd[x].attempts
      BY <2>2, <1>n DEF FailedIsOver
    <3>2. \A x \in Commands, b \in Attempts : cmd[x].status = "failed" /\ b = cmd[x].attempts
            => request'[x][b] = request[x][b]
      <4> HIDE DEF c, a
      <4> QED
        BY <3>1, <2>4 DEF Answers
    <3> QED
      BY <2>2, <2>5, <3>2, <1>n DEF FailedIsOver
  <2> QED
    BY <2>1, <2>2, <2>4, <2>6, <2>8, <2>9, <1>t DEF Moves, Answers, CmdOK
<1>8. ASSUME NEW w \in Workers,
             CompleteConfirmed(w) \/ CatchConfirmed(w) \/ CatchBeforeCall(w) \/ CatchCall(w)
      PROVE Rest'
  <2> DEFINE c == work[w].cmd
  <2>1. Busy(w) /\ Executing(w) /\ Ends(w)
    BY <1>8, SlotEnds
  <2>2. c \in Commands /\ work[w].attempt = cmd[c].attempts /\ work[w].attempt \in Attempts
    BY <2>1, <1>t, <1>n, CallTyped DEF Executing, AttemptsNumbered
  <2>3. \A v \in Workers : Busy(v)' => v # w /\ Busy(v) /\ work'[v] = work[v]
    BY <2>1 DEF Ends, Moves, Busy
  <2>4. /\ \A x \in Commands : x # c => cmd'[x] = cmd[x]
        /\ \A x \in Commands : cmd'[x].attempts = cmd[x].attempts
        /\ cmd'[c].status \in {"succeeded", "failed", "retryable", "recovery_required"}
        /\ cmd'[c].status = "failed" => Call(w).state \in {"none", "refused", "error"}
        /\ request' = request
    BY <2>1 DEF Ends, Rewrites
  <2>5. AttemptsNumbered'
    <3>1. \A x \in Commands : cmd'[x].status = "none" => cmd'[x].attempts = 0
      BY <2>4, <1>n DEF AttemptsNumbered
    <3>2. ASSUME NEW v \in Workers, Busy(v)'
          PROVE  /\ work'[v].attempt <= cmd'[work'[v].cmd].attempts
                 /\ cmd'[work'[v].cmd].status = "running" /\ cmd'[work'[v].cmd].owner = v
                      => work'[v].attempt = cmd'[work'[v].cmd].attempts
      <4>1. Busy(v) /\ work'[v] = work[v] /\ work[v].cmd \in Commands
        BY <3>2, <2>3, <1>t, CallTyped
      <4> QED
        BY <4>1, <2>4, <1>n DEF AttemptsNumbered
    <3> QED
      BY <3>1, <3>2, <2>3, <1>n DEF AttemptsNumbered
  <2>6. CallsNumbered'
    <3>1. \A v \in Workers : Busy(v)' => Call(v)' = Call(v)
      BY <2>3, <2>4 DEF Call
    <3> QED
      BY <3>1, <2>3, <2>4, <1>n DEF CallsNumbered
  <2>7. FailedIsOver'
    <3>1. \A v \in Workers : Busy(v)' => work'[v].cmd # c \/ work'[v].attempt # cmd[c].attempts
      BY <2>1, <2>2, <2>3, <1>n DEF AttemptsNumbered
    <3>2. cmd'[c].status = "failed" => request[c][cmd[c].attempts].state \in {"none", "refused", "error"}
      BY <2>2, <2>4 DEF Call
    <3> QED
      BY <3>1, <3>2, <2>3, <2>4, <1>n DEF FailedIsOver
  <2> QED
    BY <2>1, <2>4, <2>5, <2>6, <2>7, <1>t DEF Ends, Rewrites, Moves, RequestOK
<1>9. ASSUME NEW w \in Workers, Abandon(w) PROVE Rest'
  <2>1. Moves(w) /\ work'[w].pc = "idle"
    BY <1>9, <1>t, Finished DEF Abandon
  <2>2. UNCHANGED <<request, cmd>>
    BY <1>9 DEF Abandon, gmailVars
  <2>3. \A v \in Workers : Busy(v)' => Busy(v) /\ work'[v] = work[v]
    BY <2>1 DEF Moves, Busy
  <2>4. AttemptsNumbered'
    BY <2>2, <2>3, <1>n DEF AttemptsNumbered
  <2>5. CallsNumbered' /\ FailedIsOver'
    BY <2>2, <2>3, <1>n DEF CallsNumbered, FailedIsOver, Call
  <2> QED
    BY <2>1, <2>2, <2>4, <2>5, <1>t DEF Moves, RequestOK, CmdOK
<1>10. CASE UserChanges \/ SyncStep \/ UNCHANGED vars
  BY <1>1, <1>10 DEF UserChanges, SyncStep, ListHistory, ReadThread, CommitPass, gmailVars, commandVars,
     vars
<1> QED
  BY <1>2, <1>3, <1>4, <1>5, <1>6, <1>7, <1>8, <1>9, <1>10 DEF Next, ThreadStep, WorkerStep

\* A command shown as failed was not confirmed in its last attempt, however often its
\* leases expired and whichever late calls its earlier slots still made.
THEOREM FailedWasNotConfirmedAlways == Spec => []FailedWasNotConfirmed
<1>1. Inv => FailedWasNotConfirmed
  BY DEF Inv, FailedIsOver, FailedWasNotConfirmed
<1> QED
  BY <1>1, InitInv, StepInv, PTL DEF Spec
=============================================================================

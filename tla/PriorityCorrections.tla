------------------------- MODULE PriorityCorrections -------------------------
(***************************************************************************)
(* priority-correction-repository.ts: what the user says about a thread.  A      *)
(* command carries an idempotency key and the transition the user saw.  The      *)
(* audit event and the invalidation that writeFacts adds share a transaction      *)
(* with their transition, which stands for them.                                 *)
(***************************************************************************)
EXTENDS ThreadRows

CONSTANTS
  Keys, NoKey,
  CorrectionIds

\* What a request is answered; NOT_FOUND and ERROR are exceptions.
Verdicts == {"APPLIED", "REPLAYED", "CONFLICT", "NO_CHANGE", "NOT_FOUND", "HISTORY", "EMPTY", "BROKEN", "ERROR"}

ASSUME CorrectionAssumption ==
  /\ None \notin CorrectionIds
  /\ NoReply \notin Callers \X Verdicts

VARIABLES
  correction,    \* current_transition_id of priority_corrections, None without a row
  corrections,   \* rows of priority_correction_transitions
  request,
  refused        \* history: one of the commands that were answered CONFLICT or NO_CHANGE

vars == <<threadVars, reply, correction, corrections, request, refused>>

Operations == {"PRIORITIZE", "NOT_IMPORTANT", "UNDO"}

NoCommand == [op |-> "none", thread |-> None, expected |-> None, key |-> NoKey]
NoRequest == [command |-> NoCommand, stage |-> "idle", row |-> None]

OfThread(t) == {x \in corrections : x.thread = t}

\* Some threads are bound, others are not known to the application.
Init ==
  /\ current \in [Threads -> {None, "bound"}]
  /\ holder = [t \in Threads |-> NoCaller]
  /\ reply = NoReply
  /\ correction = [t \in Threads |-> None]
  /\ corrections = {}
  /\ request = [c \in Callers |-> NoRequest]
  /\ refused = {}

------------------------------------------------------------------------------
Proceed(c, stage, row) ==
  /\ request' = [request EXCEPT ![c].stage = stage, ![c].row = row]
  /\ Silently
  /\ UNCHANGED <<current, correction, corrections, refused>>

Complete(c, a) ==
  LET m == request[c].command IN
  /\ request' = [request EXCEPT ![c] = NoRequest]
  /\ reply' = <<c, a>>
  /\ refused' \in IF refused = {} /\ a \in {"CONFLICT", "NO_CHANGE"} THEN {{}, {m}} ELSE {refused}
  /\ Unlock(c)

Reply(c, a) == Complete(c, a) /\ UNCHANGED <<current, correction, corrections>>

Send(c, command, stage) ==
  /\ request[c].stage = "idle"
  /\ request' = [request EXCEPT ![c] = [NoRequest EXCEPT !.command = command, !.stage = stage]]
  /\ Silently
  /\ UNCHANGED <<threadVars, correction, corrections, refused>>

\* createBinding, of which only the new thread matters here; the row locks that
\* ProviderBindings holds delay the transactions below and nothing else.
BindThread(t) ==
  /\ current[t] = None
  /\ current' = [current EXCEPT ![t] = "bound"]
  /\ Silently
  /\ UNCHANGED <<holder, correction, corrections, request, refused>>

\* A client sends any command again, and may know the thread as it was earlier.
SendAny(c) ==
  \E t \in Threads :
    \/ \E op \in Operations, key \in Keys, e \in {None} \cup {x.id : x \in OfThread(t)} :
         Send(c, [op |-> op, thread |-> t, expected |-> e, key |-> key], "lock")
    \/ Send(c, [NoCommand EXCEPT !.op = "LIST", !.thread = t], "current")

\* requireScopedThread
LockThread(c) ==
  LET t == request[c].command.thread IN
  /\ request[c].stage = "lock"
  /\ IF current[t] = None
     THEN Reply(c, "NOT_FOUND")
     ELSE Lock(c, t) /\ Proceed(c, "lookup", None)

\* exactReplay
SameIntent(x, m) ==
  x.thread = m.thread /\ x.operation = m.op /\ x.previous = m.expected

Recorded(m) == \E x \in corrections : x.key = m.key /\ SameIntent(x, m)

Used(key) == {x \in corrections : x.key = key}

\* Mutant: only the thread's current transition is compared with the key.
KeyOfCurrent(m) == {x \in Used(m.key) : x.id = correction[m.thread]}

\* selectIdempotentTransition
WithKey(m) == Used(m.key)

LookUpKey(c) ==
  LET m == request[c].command IN
  /\ request[c].stage = "lookup"
  /\ IF WithKey(m) = {}
     THEN Proceed(c, "decide", None) /\ UNCHANGED holder
     ELSE Reply(c, IF \A x \in WithKey(m) : SameIntent(x, m) THEN "REPLAYED" ELSE "CONFLICT")

OperationOf(id) == (CHOOSE x \in corrections : x.id = id).operation

\* What mutate concludes from the thread's current correction.
Disposition(m, now) ==
  CASE m.expected # now -> "CONFLICT"
    [] m.expected = now /\ now = None /\ m.op = "UNDO" -> "NO_CHANGE"
    [] m.expected = now /\ now # None /\ OperationOf(now) = m.op -> "NO_CHANGE"
    [] OTHER -> "APPLIED"

\* Mutant: the new transition always starts the history.
RootTransition(i, m, now) ==
  [id |-> i, thread |-> m.thread, operation |-> m.op, previous |-> None, key |-> m.key]

NewTransition(i, m, now) ==
  [id |-> i, thread |-> m.thread, operation |-> m.op, previous |-> now, key |-> m.key]

\* A key that another thread of the mailbox took since the lookup is a unique violation.
Decide(c) ==
  LET m == request[c].command
      now == correction[m.thread]
      unused == CorrectionIds \ {x.id : x \in corrections}
      i == CHOOSE i \in unused : TRUE
      d == Disposition(m, now)
  IN
  /\ request[c].stage = "decide"
  /\ IF d = "APPLIED" /\ Used(m.key) = {}
     THEN /\ unused # {}
          /\ corrections' = corrections \cup {NewTransition(i, m, now)}
          /\ correction' = [correction EXCEPT ![m.thread] = i]
          /\ Complete(c, "APPLIED")
          /\ UNCHANGED current
     ELSE Reply(c, IF d = "APPLIED" THEN "CONFLICT" ELSE d)

\* listCorrectionTransitions reads the pointer, and the transitions with a second query.
ListCurrent(c) ==
  LET t == request[c].command.thread IN
  /\ request[c].stage = "current"
  /\ CASE current[t] = None                          -> Reply(c, "NOT_FOUND")
       [] current[t] # None /\ correction[t] = None -> Reply(c, "EMPTY")
       [] current[t] # None /\ correction[t] # None ->
            Proceed(c, "rows", correction[t]) /\ UNCHANGED holder

\* The rows of S that lead back from id.
Chain(id, S) ==
  {x \in S : \A A \in SUBSET S :
     (\A y \in S : (y.id = id \/ \E z \in A : z.previous = y.id) => y \in A) => x \in A}

\* Mutant: transitions beside the chain are not noticed.
ListChain(c) ==
  LET S == OfThread(request[c].command.thread) IN
  /\ request[c].stage = "rows"
  /\ Reply(c, IF \E x \in Chain(request[c].row, S) : x.previous = None THEN "HISTORY" ELSE "BROKEN")

ListRows(c) ==
  LET S == OfThread(request[c].command.thread) IN
  /\ request[c].stage = "rows"
  /\ Reply(c, IF Chain(request[c].row, S) = S THEN "HISTORY" ELSE "BROKEN")

\* The connection is lost, or PostgreSQL aborts the transaction.
Interrupt(c) == request[c].stage # "idle" /\ Reply(c, "ERROR")

Next ==
  \/ \E t \in Threads : BindThread(t)
  \/ \E c \in Callers :
       \/ SendAny(c) \/ LockThread(c) \/ LookUpKey(c) \/ Decide(c)
       \/ ListCurrent(c) \/ ListRows(c) \/ Interrupt(c)

Spec == Init /\ [][Next]_vars

------------------------------------------------------------------------------
(* Properties *)

TypeOK ==
  /\ reply \in {NoReply} \cup (Callers \X Verdicts)
  /\ holder \in [Threads -> Callers \cup {NoCaller}]
  /\ correction \in [Threads -> CorrectionIds \cup {None}]
  /\ corrections \subseteq [id : CorrectionIds, thread : Threads, operation : Operations,
                            previous : CorrectionIds \cup {None}, key : Keys]
  /\ \A c \in Callers :
       /\ request[c].stage \in {"idle", "lock", "lookup", "decide", "current", "rows"}
       /\ request[c].row \in CorrectionIds \cup {None}

Links(t) == {[id |-> x.id, previous |-> x.previous] : x \in OfThread(t)}

History(t) == INSTANCE LinearHistory WITH entries <- Links(t), head <- correction[t]

\* The history of a thread's corrections grows at its end only, whatever clients
\* say at once: no correction is lost and none has two successors
\* (priority-correction-repository.ts:362-472).
HistoriesAreLinear ==
  /\ \A t \in Threads : History(t)!Init
  /\ [][\A t \in Threads : [History(t)!Append]_(History(t)!vars)]_vars

Answers(c, answers) == \E a \in answers : reply' = <<c, a>>

\* The same command gets the same verdict however often and from wherever it is sent:
\* once recorded it is never refused, once refused it is never recorded
\* (priority-correction-repository.ts:370-385).
VerdictsAgree ==
  [][\A c \in Callers :
       LET m == request[c].command IN
       /\ Answers(c, {"APPLIED", "REPLAYED"}) => m \notin refused
       /\ Answers(c, {"CONFLICT", "NO_CHANGE"}) => ~Recorded(m)]_vars

\* A history is reported broken exactly when a correction was committed between the
\* two reads; a history that is returned is the whole of it
\* (priority-correction-repository.ts:490-543).
HistoryIsWhole ==
  [][\A c \in Callers :
       Answers(c, {"HISTORY", "BROKEN"}) =>
         (Answers(c, {"HISTORY"}) <=> request[c].row = correction[request[c].command.thread])]_vars
=============================================================================

-------------------------- MODULE ProviderBindings --------------------------
(***************************************************************************)
(* thread-provider-binding-repository.ts: which thread of Gmail an application  *)
(* thread stands for.  A binding is identified with its locator, which is       *)
(* unique; locators are those of the mailbox's own account.  Concurrent          *)
(* transactions run READ COMMITTED: a statement sees what is committed when it    *)
(* begins, and after waiting for a row it reconsiders that row only.             *)
(***************************************************************************)
EXTENDS ThreadRows, Naturals

CONSTANTS
  Locators, NoLocator,
  NoThread,
  TransitionIds

\* What a call is answered; NOT_FOUND, INVALID and ERROR are exceptions.
Results == {"BOUND", "CONFLICT", "INVALID", "NOT_FOUND", "ERROR"}

ASSUME BindingAssumption ==
  /\ NoThread \notin Threads
  /\ NoLocator \notin Locators
  /\ TransitionIds # {} /\ None \notin TransitionIds
  /\ NoReply \notin Callers \X Results

VARIABLES
  claims,        \* rows of thread_provider_bindings: the thread of each locator
  transitions,   \* rows of thread_provider_binding_transitions
  call

vars == <<threadVars, reply, claims, transitions, call>>

Lifecycles == {"ACTIVE", "SUSPENDED", "RETIRED"}

NoCall == [op |-> "none", thread |-> NoThread, locator |-> NoLocator, expected |-> None,
           intent |-> FALSE, stage |-> "idle", row |-> None]

IdsOf(S) == {x.id : x \in S}
Unused == TransitionIds \ IdsOf(transitions)
NewId(unused) == CHOOSE i \in unused : TRUE
Row(id) == CHOOSE x \in transitions : x.id = id

Transition(id, t, l, lifecycle, previous) ==
  [id |-> id, thread |-> t, locator |-> l, lifecycle |-> lifecycle, previous |-> previous]

\* A row reaches its binding through the thread's current transition only.
BoundTo(l) == {t \in Threads : current[t] # None /\ Row(current[t]).locator = l}

Init ==
  \* Migration 016 has bound the threads known until then.
  /\ \E bound \in {{}} \cup {{t} : t \in Threads}, l \in Locators, i \in {NewId(TransitionIds)} :
       /\ transitions = {Transition(i, t, l, "ACTIVE", None) : t \in bound}
       /\ current = [t \in Threads |-> IF t \in bound THEN i ELSE None]
       /\ claims = [k \in Locators |-> IF bound # {} /\ k = l THEN CHOOSE t \in bound : TRUE
                                       ELSE NoThread]
  /\ call = [c \in Callers |-> NoCall]
  /\ holder = [t \in Threads |-> NoCaller]
  /\ reply = NoReply

------------------------------------------------------------------------------
Enter(c, stage, row) ==
  /\ call' = [call EXCEPT ![c].stage = stage, ![c].row = row]
  /\ Silently
  /\ UNCHANGED <<current, claims, transitions>>

Finish(c, a) ==
  /\ call' = [call EXCEPT ![c] = NoCall]
  /\ reply' = <<c, a>>
  /\ Unlock(c)

Answer(c, a) == Finish(c, a) /\ UNCHANGED <<current, claims, transitions>>

\* What SELECT ... FOR UPDATE returns, and when: a statement that began with row r
\* waits for the lock, then tests the join again with the thread's new pointer
\* against the transition it had.
Granted(r) == r # None => holder[Row(r).thread] = NoCaller
Reselected(r) == IF r # None /\ current[Row(r).thread] = r THEN r ELSE None

\* The caller names a transition it has been given earlier.
Begin(c, op, t, l, e, intent) ==
  /\ call[c].stage = "idle"
  /\ e \in {None} \cup {x.id : x \in {x \in transitions : x.thread = t}}
  /\ call' = [call EXCEPT ![c] =
       [op |-> op, thread |-> t, locator |-> l, expected |-> e, intent |-> intent,
        stage |-> IF l = NoLocator THEN "thread" ELSE "locator",
        row |-> IF l = NoLocator THEN current[t]
                ELSE IF BoundTo(l) = {} THEN None ELSE current[CHOOSE u \in BoundTo(l) : TRUE]]]
  /\ Silently
  /\ UNCHANGED <<threadVars, claims, transitions>>

BeginAny(c) ==
  \E t \in Threads :
    \/ \E l \in Locators : Begin(c, "resolve", t, l, None, FALSE)
    \/ \E l \in Locators, e \in TransitionIds : Begin(c, "replace", t, l, e, FALSE)
    \/ \E op \in {"suspend", "retire", "reactivate"}, e \in TransitionIds, intent \in BOOLEAN :
         /\ intent => op = "reactivate"
         /\ Begin(c, op, t, NoLocator, e, intent)

\* selectLocator
SelectLocator(c) ==
  LET k == call[c]
      r == Reselected(k.row)
  IN
  /\ k.stage = "locator" /\ Granted(k.row)
  /\ IF r = None
     THEN Enter(c, "thread", current[k.thread]) /\ UNCHANGED holder
     ELSE Answer(c, IF k.op = "resolve" /\ Row(r).thread = k.thread THEN "BOUND" ELSE "CONFLICT")

\* createBinding finds the proposed thread, or none.
SelectProposed(c) ==
  LET k == call[c]
      r == Reselected(k.row)
  IN
  /\ k.stage = "thread" /\ k.op = "resolve" /\ Granted(k.row)
  /\ IF r = None
     THEN Enter(c, "insert", None) /\ UNCHANGED holder
     ELSE Answer(c, IF Row(r).locator = k.locator THEN "BOUND" ELSE "CONFLICT")

\* createBinding inserts, or meets a thread or a locator inserted meanwhile.
CreateBinding(c) ==
  LET k == call[c]
      i == NewId(Unused)
  IN
  /\ k.stage = "insert"
  /\ Unused # {}
  /\ IF current[k.thread] # None \/ claims[k.locator] # NoThread
     THEN Enter(c, "refind", None) /\ UNCHANGED holder
     ELSE /\ transitions' = transitions \cup {Transition(i, k.thread, k.locator, "ACTIVE", None)}
          /\ claims' = [claims EXCEPT ![k.locator] = k.thread]
          /\ current' = [current EXCEPT ![k.thread] = i]
          /\ Finish(c, "BOUND")

\* Mutant: the transaction that lost the race reports it without looking again.
AnswerConflict(c) == call[c].stage = "refind" /\ Answer(c, "CONFLICT")

\* resolveOrCreateProviderBinding after a unique violation.
FindAgain(c) ==
  /\ call[c].stage = "refind"
  /\ Answer(c, IF call[c].thread \in BoundTo(call[c].locator) THEN "BOUND" ELSE "CONFLICT")

Target(op) == CASE op = "suspend" -> "SUSPENDED" [] op = "retire" -> "RETIRED" [] OTHER -> "ACTIVE"

Allowed(k, lifecycle) ==
  CASE k.op = "suspend"    -> lifecycle = "ACTIVE"
    [] k.op = "retire"     -> lifecycle \in {"ACTIVE", "SUSPENDED"}
    [] k.op = "reactivate" -> lifecycle = "SUSPENDED" \/ (lifecycle = "RETIRED" /\ k.intent)
    [] k.op = "replace"    -> lifecycle # "RETIRED"

\* What the locked row r decides without a write, "none" when it has to write.
Verdict(k, r) ==
  CASE r = None -> "NOT_FOUND"
    [] r # None /\ r # k.expected -> "CONFLICT"
    [] r # None /\ r = k.expected ->
         IF k.op # "replace" /\ Row(r).lifecycle = Target(k.op) THEN "BOUND"
         ELSE IF ~Allowed(k, Row(r).lifecycle) THEN "INVALID"
         ELSE IF k.op = "replace" /\ Row(r).locator = k.locator THEN "CONFLICT"
         ELSE "none"

\* transitionBinding and replaceProviderBinding lock the thread and check it.
SelectThread(c) ==
  LET k == call[c]
      v == Verdict(k, Reselected(k.row))
  IN
  /\ k.stage = "thread" /\ k.op # "resolve" /\ Granted(k.row)
  /\ IF v # "none"
     THEN Answer(c, v)
     ELSE Lock(c, k.thread) /\ Enter(c, "write", k.row)

\* Commit: the pointer moves to id only if it is still the expected one.
Move(c, added, id, l) ==
  LET k == call[c] IN
  IF current[k.thread] # k.expected
  THEN Answer(c, "CONFLICT")
  ELSE /\ transitions' = transitions \cup added
       /\ claims' = [claims EXCEPT ![l] = k.thread]
       /\ current' = [current EXCEPT ![k.thread] = id]
       /\ Finish(c, "BOUND")

WriteTransition(c) ==
  LET k == call[c]
      i == NewId(Unused)
      l == Row(k.row).locator
  IN
  /\ k.stage = "write" /\ k.op # "replace"
  /\ Unused # {}
  /\ Move(c, {Transition(i, k.thread, l, Target(k.op), k.row)}, i, l)

\* Mutant: both rows follow the transition that was current.
ReplacementForked(k, i, j) ==
  {Transition(i, k.thread, Row(k.row).locator, "RETIRED", k.row),
   Transition(j, k.thread, k.locator, "ACTIVE", k.row)}

\* Mutant: the old binding is left as it was.
ReplacementUnretired(k, i, j) ==
  {Transition(i, k.thread, Row(k.row).locator, Row(k.row).lifecycle, k.row),
   Transition(j, k.thread, k.locator, "ACTIVE", i)}

Replacement(k, i, j) ==
  {Transition(i, k.thread, Row(k.row).locator, "RETIRED", k.row),
   Transition(j, k.thread, k.locator, "ACTIVE", i)}

\* Any earlier claim of the new locator is a unique violation.
WriteReplacement(c) ==
  LET k == call[c]
      i == NewId(Unused)
      j == NewId(Unused \ {i})
  IN
  /\ k.stage = "write" /\ k.op = "replace"
  /\ \E a, b \in Unused : a # b
  /\ IF claims[k.locator] # NoThread
     THEN Answer(c, "CONFLICT")
     ELSE Move(c, Replacement(k, i, j), j, k.locator)

\* The connection is lost, or PostgreSQL aborts the transaction.
Rollback(c) == call[c].stage # "idle" /\ Answer(c, "ERROR")

Next ==
  \E c \in Callers :
    \/ BeginAny(c)
    \/ SelectLocator(c) \/ SelectProposed(c) \/ CreateBinding(c) \/ FindAgain(c)
    \/ SelectThread(c) \/ WriteTransition(c) \/ WriteReplacement(c) \/ Rollback(c)

Spec == Init /\ [][Next]_vars

------------------------------------------------------------------------------
(* Properties *)

TypeOK ==
  /\ reply \in {NoReply} \cup (Callers \X Results)
  /\ current \in [Threads -> TransitionIds \cup {None}]
  /\ holder \in [Threads -> Callers \cup {NoCaller}]
  /\ claims \in [Locators -> Threads \cup {NoThread}]
  /\ transitions \subseteq [id : TransitionIds, thread : Threads, locator : Locators,
                            lifecycle : Lifecycles, previous : TransitionIds \cup {None}]
  /\ call \in [Callers ->
       [op : {"none", "resolve", "replace", "suspend", "retire", "reactivate"},
        thread : Threads \cup {NoThread}, locator : Locators \cup {NoLocator},
        expected : TransitionIds \cup {None}, intent : BOOLEAN,
        stage : {"idle", "locator", "thread", "insert", "refind", "write"},
        row : TransitionIds \cup {None}]]

Links(t) == {[id |-> x.id, previous |-> x.previous] : x \in {x \in transitions : x.thread = t}}

History(t) == INSTANCE LinearHistory WITH entries <- Links(t), head <- current[t]

\* The history of a thread's bindings grows at its end only, whatever binds,
\* suspends, retires and replaces at once: no transition is lost, none has two
\* successors (thread-provider-binding-repository.ts:392-552).
HistoriesAreLinear ==
  /\ \A t \in Threads : History(t)!Init
  /\ [][\A t \in Threads : [History(t)!Append]_(History(t)!vars)]_vars

Latest(l) == {x \in transitions : x.locator = l /\ ~\E y \in transitions : y.locator = l /\ y.previous = x.id}

\* A locator that a replacement took from its thread ends RETIRED and stays claimed
\* by that thread: nothing else can be bound to it any more
\* (thread-provider-binding-repository.ts:468-552).
SupersededIsRetired ==
  \A x \in transitions :
    /\ claims[x.locator] = x.thread
    /\ x.thread \notin BoundTo(x.locator) => \A y \in Latest(x.locator) : y.lifecycle = "RETIRED"

Answers(c, answers) == \E a \in answers : reply' = <<c, a>>

\* A command on a binding is refused only to a caller that is behind: the thread is no
\* longer at the transition it names, or the locator it wants is taken
\* (thread-provider-binding-repository.ts:264-390, 402-407, 478-495).
RefusedOnlyIfBehind ==
  [][\A c \in Callers : Answers(c, {"CONFLICT", "NOT_FOUND"}) =>
       LET k == call[c] IN
       IF k.op = "resolve" THEN k.thread \notin BoundTo(k.locator)
       ELSE \/ current[k.thread] \in {None} \cup (TransitionIds \ {k.expected})
            \/ k.op = "replace" /\ claims[k.locator] # NoThread]_vars
=============================================================================

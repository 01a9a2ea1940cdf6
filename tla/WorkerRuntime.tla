---------------------------- MODULE WorkerRuntime ----------------------------
(***************************************************************************)
(* The life of one worker process (worker-runtime.ts, bootstrap.ts) and of its  *)
(* row in worker_heartbeats.  Every await is a step that can fail; between the    *)
(* steps jobs run, timers fire and scheduled tasks go on.                        *)
(***************************************************************************)
EXTENDS FiniteSets

CONSTANTS
  Consumers,               \* sync, commands
  FirstConsumer,           \* the one that is created first
  Schedulers,
  Heartbeat,               \* the scheduler that updates the row
  Immediate,               \* schedulers that run as soon as they are started
  Queues, Redis, Pool      \* what the process owns besides its consumers

Resources == {Queues, Redis, Pool}

ASSUME RuntimeAssumption ==
  /\ FirstConsumer \in Consumers
  /\ Heartbeat \in Schedulers
  /\ Immediate \subseteq Schedulers \ {Heartbeat}
  /\ Cardinality(Resources) = 3

VARIABLES
  status,     \* status of the runtime
  at,         \* the await that startWorkerRuntime or stopWorkerRuntime is in
  consumer,
  active,     \* consumers with a job under way
  timers,     \* schedulers with a handle
  tasks,      \* scheduled tasks under way
  beat,       \* consumers that were running when the heartbeat under way began
  row,        \* worker_heartbeats.status
  open,       \* resources not yet closed
  failures,   \* what has failed: the "start", the "drain", the "row", a resource's close
  exit        \* exit code

vars == <<status, at, consumer, active, timers, tasks, beat, row, open, failures, exit>>
work == <<active, tasks, beat>>

Created == {c \in Consumers : consumer[c] # "absent"}
Alive == exit = "none"

Init ==
  /\ status = "created" /\ at = "bootstrap"
  /\ consumer = [c \in Consumers |-> "absent"]
  /\ active = {} /\ timers = {} /\ tasks = {} /\ beat = {}
  /\ row = "none"
  /\ open = Resources
  /\ failures = {}
  /\ exit = "none"

------------------------------------------------------------------------------
(* startWorkerRuntime *)

StartWorkerRuntime ==
  /\ at = "bootstrap"
  /\ status' = "starting" /\ at' = "recordStarted"
  /\ UNCHANGED <<consumer, work, timers, row, open, failures, exit>>

\* The INSERT may have been committed although it is reported as failed.
RecordWorkerStarted ==
  /\ at = "recordStarted"
  /\ row' = "starting" /\ at' = "createFirst"
  /\ UNCHANGED <<status, consumer, work, timers, open, failures, exit>>

\* Both consumers exist in the same turn; then the first heartbeat is awaited.
CreateConsumers ==
  /\ at = "createFirst"
  /\ consumer' = [c \in Consumers |-> "running"]
  /\ status' = "running" /\ at' = "firstHeartbeat"
  /\ beat' = Consumers
  /\ UNCHANGED <<active, tasks, timers, row, open, failures, exit>>

\* Mutant: the row is written whatever its status.
AfterHeartbeatAlways == IF beat = Consumers THEN "running" ELSE row

\* UPDATE worker_heartbeats ... WHERE status IN ('starting','running')
AfterHeartbeat == IF row \in {"starting", "running"} /\ beat = Consumers THEN "running" ELSE row

StartSchedulers ==
  /\ at = "firstHeartbeat"
  /\ row' = AfterHeartbeat
  /\ timers' = Schedulers
  /\ tasks' = Immediate
  /\ at' = "started"
  /\ UNCHANGED <<status, consumer, active, beat, open, failures, exit>>

\* stopWorkerRuntime up to its first await.
BeginDraining ==
  /\ status' = "draining" /\ at' = "markDraining"
  /\ timers' = {}
  /\ UNCHANGED <<work, open, exit>>

\* Whatever throws during the start, what was created is given back.
StartFails ==
  /\ \/ at = "recordStarted" /\ row' \in {row, "starting"} /\ UNCHANGED consumer
     \/ /\ at = "createFirst" /\ UNCHANGED row
        /\ consumer' \in {consumer, [consumer EXCEPT ![FirstConsumer] = "running"]}
     \/ at = "firstHeartbeat" /\ row' \in {row, AfterHeartbeat} /\ UNCHANGED consumer
  /\ BeginDraining
  /\ failures' = {"start"}

------------------------------------------------------------------------------
(* A running worker: BullMQ hands out jobs, timers fire. *)

TakeJob(c) ==
  /\ Alive /\ consumer[c] = "running" /\ c \notin active
  /\ active' = active \cup {c}
  /\ UNCHANGED <<status, at, consumer, timers, tasks, beat, row, open, failures, exit>>

EndJob(c) ==
  /\ Alive /\ c \in active
  /\ active' = active \ {c}
  /\ UNCHANGED <<status, at, consumer, timers, tasks, beat, row, open, failures, exit>>

\* Runs of one scheduler do not overlap.
Tick(s) ==
  /\ Alive /\ s \in timers \ tasks /\ status = "running"
  /\ tasks' = tasks \cup {s}
  /\ beat' = IF s = Heartbeat THEN {c \in Consumers : consumer[c] = "running"} ELSE beat
  /\ UNCHANGED <<status, at, consumer, active, timers, row, open, failures, exit>>

\* A task ends or fails, also after its timer has been cleared.
EndTask(s) ==
  /\ Alive /\ s \in tasks
  /\ tasks' = tasks \ {s}
  /\ row' \in IF s = Heartbeat THEN {row, AfterHeartbeat} ELSE {row}
  /\ UNCHANGED <<status, at, consumer, active, timers, beat, open, failures, exit>>

------------------------------------------------------------------------------
(* stopWorkerRuntime *)

\* SIGINT or SIGTERM; bootstrap handles them once the start has ended.
Signal ==
  /\ at = "started"
  /\ BeginDraining
  /\ UNCHANGED <<consumer, row, failures>>

\* Its failure is only logged.  Every consumer is then paused at once.
MarkWorkerDraining ==
  /\ at = "markDraining"
  /\ row' \in IF row \in {"starting", "running"} THEN {row, "draining"} ELSE {row}
  /\ consumer' = [c \in Consumers |-> IF c \in Created THEN "pausing" ELSE "absent"]
  /\ at' = IF Created = {} THEN "markStopped" ELSE "pause"
  /\ UNCHANGED <<status, work, timers, open, failures, exit>>

\* pause(false): the consumer waits for its jobs.
Paused(c) ==
  /\ Alive /\ consumer[c] = "pausing" /\ c \notin active
  /\ consumer' = [consumer EXCEPT ![c] = "paused"]
  /\ at' = IF at = "pause" /\ \A d \in Created \ {c} : consumer[d] = "paused" THEN "close" ELSE at
  /\ UNCHANGED <<status, work, timers, row, open, failures, exit>>

\* Mutant: the first failure ends the shutdown.
FailAndStop(f, next) ==
  /\ failures' = failures \cup {f}
  /\ at' = "exit" /\ status' = "stopped"

\* The failure is kept and the next step taken.
Fail(f, next) ==
  /\ failures' = failures \cup {f}
  /\ at' = next
  /\ status' = IF next = "exit" THEN "stopped" ELSE status

\* The drain is given up: the other consumers are not waited for, none is closed.
PauseFails(c) ==
  /\ at = "pause" /\ consumer[c] = "pausing"
  /\ consumer' = [consumer EXCEPT ![c] = "running"]
  /\ Fail("drain", "markStopped")
  /\ UNCHANGED <<work, timers, row, open, exit>>

\* close(false) of a paused consumer.
Close(c) ==
  /\ at = "close" /\ consumer[c] = "paused"
  /\ consumer' = [consumer EXCEPT ![c] = "closed"]
  /\ at' = IF \A d \in Created \ {c} : consumer[d] = "closed" THEN "markStopped" ELSE at
  /\ UNCHANGED <<status, work, timers, row, open, failures, exit>>

CloseFails(c) ==
  /\ at = "close" /\ consumer[c] = "paused"
  /\ Fail("drain", "markStopped")
  /\ UNCHANGED <<consumer, work, timers, row, open, exit>>

\* Mutant: the deadline only counts once the consumers are closed.
DrainElapsesLate ==
  /\ at = "close" /\ \A c \in Created : consumer[c] = "closed"
  /\ at' = "force"
  /\ UNCHANGED <<status, consumer, work, timers, row, open, failures, exit>>

DrainElapses ==
  /\ at = "close"
  /\ at' = "force"
  /\ UNCHANGED <<status, consumer, work, timers, row, open, failures, exit>>

\* close(true) of both; what fails is ignored.
ForceClose ==
  /\ at = "force"
  /\ \E S \in SUBSET Created : consumer' = [c \in Consumers |-> IF c \in S THEN "closed" ELSE consumer[c]]
  /\ at' = "markStopped"
  /\ UNCHANGED <<status, work, timers, row, open, failures, exit>>

MarkWorkerStopped ==
  /\ at = "markStopped"
  /\ \/ /\ row' = IF row = "none" THEN row ELSE "stopped"
        /\ at' = "closeQueues" /\ UNCHANGED <<status, failures>>
     \/ row' \in {row, IF row = "none" THEN row ELSE "stopped"} /\ Fail("row", "closeQueues")
  /\ UNCHANGED <<consumer, work, timers, open, exit>>

Release(step, r, next) ==
  /\ at = step
  /\ \/ /\ open' = open \ {r}
        /\ at' = next /\ status' = IF next = "exit" THEN "stopped" ELSE status
        /\ UNCHANGED failures
     \/ Fail(r, next) /\ UNCHANGED open
  /\ UNCHANGED <<consumer, work, timers, row, exit>>

CloseQueues == Release("closeQueues", Queues, "quit")
Quit == Release("quit", Redis, "closePool")
ClosePool == Release("closePool", Pool, "exit")

\* bootstrap: 1 after a start or a shutdown in which something failed.
Exit ==
  /\ at = "exit" /\ Alive
  /\ exit' = IF failures = {} THEN "0" ELSE "1"
  /\ UNCHANGED <<status, at, consumer, work, timers, row, open, failures>>

Start ==
  StartWorkerRuntime \/ RecordWorkerStarted \/ CreateConsumers \/ StartSchedulers \/ StartFails

Stop ==
  \/ MarkWorkerDraining \/ ForceClose \/ MarkWorkerStopped
  \/ CloseQueues \/ Quit \/ ClosePool \/ Exit

Next ==
  \/ Start \/ Signal \/ Stop \/ DrainElapses
  \/ \E c \in Consumers : \/ TakeJob(c) \/ EndJob(c)
                          \/ Paused(c) \/ PauseFails(c) \/ Close(c) \/ CloseFails(c)
  \/ \E s \in Schedulers : Tick(s) \/ EndTask(s)

Spec == Init /\ [][Next]_vars

\* Calls of the database and Redis end or fail, jobs end, the drain's timer fires.  A
\* consumer may take for ever to close.
Fairness ==
  /\ WF_vars(Start) /\ WF_vars(Stop) /\ WF_vars(DrainElapses)
  /\ \A c \in Consumers : WF_vars(EndJob(c)) /\ WF_vars(Paused(c) \/ PauseFails(c))

FairSpec == Spec /\ Fairness

------------------------------------------------------------------------------
(* Properties *)

Steps == {"bootstrap", "recordStarted", "createFirst", "firstHeartbeat", "started", "markDraining",
          "pause", "close", "force", "markStopped", "closeQueues", "quit", "closePool", "exit"}

TypeOK ==
  /\ at \in Steps
  /\ status \in {"created", "starting", "running", "draining", "stopped"}
  /\ consumer \in [Consumers -> {"absent", "running", "pausing", "paused", "closed"}]
  /\ active \subseteq Created
  /\ timers \subseteq Schedulers /\ tasks \subseteq Schedulers
  /\ beat \subseteq Consumers
  /\ row \in {"none", "starting", "running", "draining", "stopped"}
  /\ open \subseteq Resources
  /\ failures \subseteq Resources \cup {"start", "drain", "row"}
  /\ exit \in {"none", "0", "1"}

\* Whatever fails in whatever order, a process that ends has closed all it owned but
\* for what itself failed to close, and tells the truth: its row says stopped unless
\* that write failed, and exit code 0 means that no job was cut off
\* (worker-runtime.ts:187-208, bootstrap.ts:17-43).
ExitIsHonest ==
  exit # "none" =>
    /\ open \subseteq failures
    /\ row \in {"none", "stopped"} \/ "row" \in failures
    /\ exit = "0" => row = "stopped" /\ active = {}

\* A heartbeat that was under way when the shutdown began does not make a draining or
\* stopped worker look alive again (worker-runtime-repository.ts:31-42).
RowNeverRevives ==
  [][row' \in {"starting", "running"} => row \notin {"draining", "stopped"}]_vars

\* Every start succeeds or gives back what it took, every shutdown ends with the
\* process: as long as jobs end, also when a consumer never closes
\* (worker-runtime.ts:134-208).
ShutdownCompletes ==
  status \in {"starting", "draining"} ~> status = "running" \/ exit # "none"
==============================================================================

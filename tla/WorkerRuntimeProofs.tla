------------------------- MODULE WorkerRuntimeProofs -------------------------
(***************************************************************************)
(* For any consumers and schedulers, and any step that fails: how a process     *)
(* ends.  The invariant says, for each step of the shutdown, what the steps       *)
(* before it have left.                                                         *)
(***************************************************************************)
EXTENDS WorkerRuntime, TLAPS

\* A consumer that takes no jobs.
Resting == {"absent", "paused", "closed"}

\* The steps of the shutdown after the drain.
Ending == {"markStopped", "closeQueues", "quit", "closePool", "exit"}

\* A consumer that no longer takes jobs has none.
RestingIsIdle == \A c \in Consumers : consumer[c] \in Resting => c \notin active

\* After a drain that did not fail no consumer takes jobs.
DrainDone ==
  /\ at \in {"close", "force"} => \A c \in Consumers : consumer[c] \in Resting
  /\ at \in Ending /\ "drain" \notin failures => \A c \in Consumers : consumer[c] \in Resting

\* The worker has a row once its start succeeded, and it is stopped unless writing failed.
RowDone ==
  /\ at \in {"bootstrap", "recordStarted"} => row = "none"
  /\ at \notin {"bootstrap", "recordStarted"} /\ "start" \notin failures => row # "none"
  /\ at \in Ending \ {"markStopped"} => row \in {"none", "stopped"} \/ "row" \in failures

\* What is still open after its own step has failed to close.
CloseDone ==
  /\ at \in {"quit", "closePool", "exit"} => (Queues \in open => Queues \in failures)
  /\ at \in {"closePool", "exit"} => (Redis \in open => Redis \in failures)
  /\ at = "exit" => (Pool \in open => Pool \in failures)

\* The process exits at the end, and with 0 only if nothing failed.
ExitDone ==
  /\ exit # "none" => at = "exit"
  /\ exit = "0" => failures = {}

\* The inductive invariant.
Inv == TypeOK /\ RestingIsIdle /\ DrainDone /\ RowDone /\ CloseDone /\ ExitDone

\* A process that has not started has done nothing.
LEMMA InitInv == Init => Inv
BY DEF Init, Inv, TypeOK, Steps, Created, Resources, RestingIsIdle, Resting, DrainDone, Ending, RowDone,
       CloseDone, ExitDone

\* Starting, and the signal that ends it.
LEMMA StartInv ==
  ASSUME Inv, Start \/ Signal
  PROVE  Inv'
<1> USE RuntimeAssumption DEF Inv, TypeOK, Steps, Created, work
<1>1. CASE StartWorkerRuntime
  BY <1>1 DEF StartWorkerRuntime, RestingIsIdle, DrainDone, Ending, RowDone, CloseDone, ExitDone
<1>2. CASE RecordWorkerStarted
  BY <1>2 DEF RecordWorkerStarted, RestingIsIdle, DrainDone, Ending, RowDone, CloseDone, ExitDone
<1>3. CASE CreateConsumers
  BY <1>3 DEF CreateConsumers, RestingIsIdle, Resting, DrainDone, Ending, RowDone, CloseDone, ExitDone
<1>4. CASE StartSchedulers
  BY <1>4 DEF StartSchedulers, AfterHeartbeat, RestingIsIdle, DrainDone, Ending, RowDone, CloseDone, ExitDone
<1>5. CASE StartFails
  <2>1. consumer' \in [Consumers -> {"absent", "running", "pausing", "paused", "closed"}]
    BY <1>5 DEF StartFails
  <2>2. \A c \in Consumers : consumer'[c] = consumer[c] \/ consumer'[c] = "running"
    BY <1>5 DEF StartFails
  <2>3. row' \in {"none", "starting", "running", "draining", "stopped"}
    BY <1>5 DEF StartFails, AfterHeartbeat
  <2>4. at' = "markDraining" /\ failures' = {"start"} /\ status' = "draining" /\ timers' = {}
        /\ UNCHANGED <<active, tasks, beat, open, exit>>
    BY <1>5 DEF StartFails, BeginDraining
  <2>5. at \in {"recordStarted", "createFirst", "firstHeartbeat"}
    BY <1>5 DEF StartFails
  <2>6. TypeOK'
    BY <2>1, <2>2, <2>3, <2>4
  <2>7. RestingIsIdle'
    BY <2>2, <2>4 DEF RestingIsIdle, Resting
  <2> QED
    BY <2>4, <2>5, <2>6, <2>7 DEF DrainDone, Ending, RowDone, CloseDone, ExitDone
<1>6. CASE Signal
  BY <1>6 DEF Signal, BeginDraining, RestingIsIdle, DrainDone, Ending, RowDone, CloseDone, ExitDone
<1> HIDE DEF Inv
<1> QED
  BY <1>1, <1>2, <1>3, <1>4, <1>5, <1>6 DEF Start

\* Jobs and scheduled tasks, also those that end during the shutdown.
LEMMA WorkInv ==
  ASSUME Inv,
         \/ \E c \in Consumers : TakeJob(c) \/ EndJob(c)
         \/ \E s \in Schedulers : Tick(s) \/ EndTask(s)
  PROVE  Inv'
<1> USE DEF Inv, TypeOK, Created, work
<1>1. ASSUME NEW c \in Consumers, TakeJob(c) \/ EndJob(c) PROVE Inv'
  BY <1>1 DEF TakeJob, EndJob, RestingIsIdle, Resting, DrainDone, RowDone, CloseDone, ExitDone
<1>2. ASSUME NEW s \in Schedulers, Tick(s) PROVE Inv'
  BY <1>2 DEF Tick, RestingIsIdle, DrainDone, RowDone, CloseDone, ExitDone
<1>3. ASSUME NEW s \in Schedulers, EndTask(s) PROVE Inv'
  BY <1>3 DEF EndTask, AfterHeartbeat, RestingIsIdle, DrainDone, RowDone, CloseDone, ExitDone
<1> HIDE DEF Inv
<1> QED
  BY <1>1, <1>2, <1>3

\* The drain against its deadline.
LEMMA DrainInv ==
  ASSUME Inv,
         \/ MarkWorkerDraining \/ DrainElapses \/ ForceClose
         \/ \E c \in Consumers : Paused(c) \/ PauseFails(c) \/ Close(c) \/ CloseFails(c)
  PROVE  Inv'
<1> USE RuntimeAssumption DEF Inv, TypeOK, Steps, Created, work, Resting, Ending
<1>1. CASE MarkWorkerDraining
  BY <1>1 DEF MarkWorkerDraining, RestingIsIdle, DrainDone, RowDone, CloseDone, ExitDone
<1>2. CASE DrainElapses
  BY <1>2 DEF DrainElapses, RestingIsIdle, DrainDone, RowDone, CloseDone, ExitDone
<1>3. CASE ForceClose
  BY <1>3 DEF ForceClose, RestingIsIdle, DrainDone, RowDone, CloseDone, ExitDone
<1>4. ASSUME NEW c \in Consumers, Paused(c) PROVE Inv'
  BY <1>4 DEF Paused, RestingIsIdle, DrainDone, RowDone, CloseDone, ExitDone
<1>5. ASSUME NEW c \in Consumers, PauseFails(c) PROVE Inv'
  BY <1>5 DEF PauseFails, Fail, RestingIsIdle, DrainDone, RowDone, CloseDone, ExitDone
<1>6. ASSUME NEW c \in Consumers, Close(c) PROVE Inv'
  BY <1>6 DEF Close, RestingIsIdle, DrainDone, RowDone, CloseDone, ExitDone
<1>7. ASSUME NEW c \in Consumers, CloseFails(c) PROVE Inv'
  BY <1>7 DEF CloseFails, Fail, RestingIsIdle, DrainDone, RowDone, CloseDone, ExitDone
<1> HIDE DEF Inv
<1> QED
  BY <1>1, <1>2, <1>3, <1>4, <1>5, <1>6, <1>7

\* The steps after the drain.
LEMMA EndInv ==
  ASSUME Inv, MarkWorkerStopped \/ CloseQueues \/ Quit \/ ClosePool \/ Exit
  PROVE  Inv'
<1> USE RuntimeAssumption DEF Inv, TypeOK, Steps, Created, work, Resting, Ending
<1>1. CASE MarkWorkerStopped
  BY <1>1 DEF MarkWorkerStopped, Fail, Resources, RestingIsIdle, DrainDone, RowDone, CloseDone, ExitDone
<1>2. CASE CloseQueues
  BY <1>2 DEF CloseQueues, Release, Fail, Resources, RestingIsIdle, DrainDone, RowDone, CloseDone, ExitDone
<1>3. CASE Quit
  BY <1>3 DEF Quit, Release, Fail, Resources, RestingIsIdle, DrainDone, RowDone, CloseDone, ExitDone
<1>4. CASE ClosePool
  BY <1>4 DEF ClosePool, Release, Fail, Resources, RestingIsIdle, DrainDone, RowDone, CloseDone, ExitDone
<1>5. CASE Exit
  BY <1>5 DEF Exit, Alive, RestingIsIdle, DrainDone, RowDone, CloseDone, ExitDone
<1> HIDE DEF Inv
<1> QED
  BY <1>1, <1>2, <1>3, <1>4, <1>5

\* The invariant holds throughout.
LEMMA InvAlways == Spec => []Inv
<1>1. ASSUME Inv, [Next]_vars PROVE Inv'
  <2>1. CASE UNCHANGED vars
    BY <1>1, <2>1 DEF vars, Inv, TypeOK, Created, RestingIsIdle, DrainDone, RowDone, CloseDone, ExitDone
  <2> QED
    BY <1>1, <2>1, StartInv, WorkInv, DrainInv, EndInv DEF Next, Stop
<1> QED
  BY <1>1, InitInv, PTL DEF Spec

\* How a process ends, whichever of its steps fail (ExitIsHonest of WorkerRuntime).
THEOREM ExitIsHonestAlways == Spec => []ExitIsHonest
<1>1. ASSUME Inv PROVE ExitIsHonest
  <2> SUFFICES ASSUME exit # "none" PROVE
        /\ open \subseteq failures
        /\ row \in {"none", "stopped"} \/ "row" \in failures
        /\ exit = "0" => row = "stopped" /\ active = {}
    BY DEF ExitIsHonest
  <2>1. at = "exit"
    BY <1>1 DEF Inv, ExitDone
  <2>2. open \subseteq failures
    BY <1>1, <2>1 DEF Inv, TypeOK, Resources, CloseDone
  <2>3. row \in {"none", "stopped"} \/ "row" \in failures
    BY <1>1, <2>1 DEF Inv, RowDone, Ending
  <2>4. ASSUME exit = "0" PROVE row = "stopped" /\ active = {}
    <3>1. failures = {}
      BY <1>1, <2>4 DEF Inv, ExitDone
    <3>2. row = "stopped"
      BY <1>1, <2>1, <2>3, <3>1 DEF Inv, RowDone
    <3>3. \A c \in Consumers : c \notin active
      BY <1>1, <2>1, <3>1 DEF Inv, DrainDone, Ending, RestingIsIdle
    <3> QED
      BY <1>1, <3>2, <3>3 DEF Inv, TypeOK, Created
  <2> QED
    BY <2>2, <2>3, <2>4
<1> QED
  BY <1>1, InvAlways, PTL

\* No heartbeat, of a task or of a start that is given up, makes a draining or stopped
\* row look alive (RowNeverRevives of WorkerRuntime).
THEOREM RowNeverRevivesAlways == Spec => RowNeverRevives
<1>1. ASSUME Inv, [Next]_vars, row \in {"draining", "stopped"}
      PROVE  row' \notin {"starting", "running"}
  <2> SUFFICES ASSUME row' # row PROVE row' \notin {"starting", "running"}
    BY <1>1
  <2>1. at # "recordStarted"
    BY <1>1 DEF Inv, RowDone
  <2>2. AfterHeartbeat = row
    BY <1>1 DEF AfterHeartbeat
  <2>3. CASE Start \/ Signal
    BY <2>1, <2>2, <2>3 DEF Start, StartWorkerRuntime, RecordWorkerStarted, CreateConsumers, StartSchedulers,
                            StartFails, Signal
  <2>4. CASE Stop \/ DrainElapses
    BY <1>1, <2>4 DEF Stop, DrainElapses, MarkWorkerDraining, ForceClose, MarkWorkerStopped, CloseQueues, Quit,
                      ClosePool, Release, Exit
  <2>5. ASSUME NEW c \in Consumers,
               TakeJob(c) \/ EndJob(c) \/ Paused(c) \/ PauseFails(c) \/ Close(c) \/ CloseFails(c)
        PROVE  FALSE
    BY <2>5 DEF TakeJob, EndJob, Paused, PauseFails, Close, CloseFails
  <2>6. ASSUME NEW s \in Schedulers, Tick(s) \/ EndTask(s) PROVE FALSE
    BY <2>2, <2>6 DEF Tick, EndTask
  <2>7. CASE UNCHANGED vars
    BY <2>7 DEF vars
  <2> QED
    BY <1>1, <2>3, <2>4, <2>5, <2>6, <2>7 DEF Next
<1>2. ASSUME Inv, [Next]_vars
      PROVE  row' \in {"starting", "running"} => row \notin {"draining", "stopped"}
  BY <1>1, <1>2
<1> QED
  BY <1>2, InvAlways, PTL DEF Spec, RowNeverRevives
==============================================================================

--------------------------- MODULE MCWorkerRuntime ---------------------------
(* Instances of WorkerRuntime. *)
EXTENDS WorkerRuntime

TwoConsumers == {"sync", "commands"}
ThreeSchedulers == {"heartbeat", "outbox", "reconciliation"}
RunAtOnce == {"reconciliation"}
==============================================================================

SPECIFICATION FairSpec
CONSTANTS
  Consumers <- TwoConsumers
  FirstConsumer = "sync"
  Schedulers <- ThreeSchedulers
  Heartbeat = "heartbeat"
  Immediate <- RunAtOnce
  Queues = "queues"
  Redis = "redis"
  Pool = "pool"
INVARIANTS
  ExitIsHonest
PROPERTIES
  RowNeverRevives
  ShutdownCompletes
CHECK_DEADLOCK FALSE

SPECIFICATION FairSpec
CONSTANTS
  Workers = {w1, w2}
  NoWorker = NoWorker
  Lines = 6
  BatchSize = 1
  QueuePerWorker = 1
  MinQueue = 3
  Retries = 1
  FailFast = TRUE
  Kind = "otel"
  MaySignal = TRUE
  MayPanic = TRUE
INVARIANTS
  MemoryBounded
PROPERTIES
  Termination

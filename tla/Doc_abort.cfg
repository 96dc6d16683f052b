SPECIFICATION Spec
CONSTANTS
  Workers = {w1, w2}
  NoWorker = NoWorker
  Lines = 5
  BatchSize = 2
  QueuePerWorker = 1
  MinQueue = 1
  Retries = 1
  FailFast = FALSE
  Kind = "hec"
  MaySignal = FALSE
  MayPanic = FALSE
INVARIANTS
  AbortReported

SPECIFICATION SlowSpec
CONSTANTS
  Workers = {w1, w2}
  NoWorker = NoWorker
  Lines = 3
  BatchSize = 1
  QueuePerWorker = 1
  MinQueue = 1
  Retries = 1
  FailFast = FALSE
  Kind = "hec"
  MaySignal = FALSE
  MayPanic = FALSE
PROPERTIES
  IdleWorkersHelp

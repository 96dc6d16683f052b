SPECIFICATION FairReporterSpec
CONSTANTS
  Workers = {w1}
  NoWorker = NoWorker
  Lines = 3
  BatchSize = 2
  QueuePerWorker = 1
  MinQueue = 1
  Retries = 0
  FailFast = TRUE
  Kind = "otel"
  MaySignal = TRUE
  MayPanic = TRUE
  Quiet = FALSE
INVARIANTS
  LineAddsUp
PROPERTIES
  LinesGrow
  ReporterStops

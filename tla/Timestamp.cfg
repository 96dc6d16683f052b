SPECIFICATION Spec
CONSTANTS
  LocalOffsets <- MCLocalOffsets
  Starts <- MCStarts
  Ages <- MCAges
  Windows <- MCWindows
  Micros <- MCMicros
  Sources <- MCSources
  Runs = 2
  Horizon <- MCHorizon
INVARIANTS
  TypeOK
  ReadsBack
  DatedInWindow
  ToldTruthfully
PROPERTIES
  SettlesDown
